---- MODULE Spec2Model ----
(***************************************************************************)
(* A model of two parts of the wandb repository:                           *)
(*   - the GraphQL code-generation plugin (tools/graphql_codegen): the     *)
(*     ordering of the fragments module, the elimination of redundant     *)
(*     subclasses, the rewriting of field declarations and the cleanup of  *)
(*     the __init__ module, as rewrites of a module body (a sequence of    *)
(*     statements);                                                        *)
(*   - the public artifacts API (wandb/apis/public/artifacts.py): the      *)
(*     ArtifactCollection object with its staged fields, saved snapshot    *)
(*     and the network calls it sends, the constructors, and the five      *)
(*     paginators with their query variables, cached response, objects     *)
(*     and the page queries they send.                                     *)
(* Names of Python identifiers are strings; the lexicographic order of the *)
(* names in use is given by NameOrder.                                     *)
(***************************************************************************)
EXTENDS Integers, Sequences, FiniteSets, TLC

VARIABLES
    module,          \* ast.Module.body: the sequence of top-level statements
    input,           \* the module body as it was handed to the hook
    hook,            \* the hook that ran last ("none" before any)
    raised,          \* the exception the last hook raised ("none" if it returned)
    classes_to_drop, \* GraphQLCodegenPlugin.classes_to_drop
    runs,            \* how many times the hook has run on this module
    first_result,    \* the module body after the hook's first run
    collection,      \* the ArtifactCollection object (NoObject before construction)
    artifact_type,   \* the ArtifactType object (NoObject before construction)
    args,            \* the arguments of the last operation and, for a
                     \* paginator, the server's answer to its page query
    op,              \* the operation of the artifacts API that ran last
    calls,           \* the network calls (client.execute) the last operation sent
    outcome,         \* "ok" if the last operation returned, else what it raised
    paginators,      \* the paginator objects, one slot per instance
    dicts,           \* the heap of dict objects; a paginator's variables is a
                     \* reference (an index) into it
    length           \* what the last length access returned (NoLength: nothing)

codegenVars == <<module, input, hook, raised, classes_to_drop, runs, first_result>>

artifactVars == <<collection, artifact_type, args, op, calls, outcome>>

paginatorVars == <<paginators, dicts, length>>

vars == <<codegenVars, artifactVars, paginatorVars>>

----------------------------------------------------------------------------
(* Bounds *)

MaxBases == 2      \* base classes per class definition
MaxStmts == 5      \* statements per fragments module
MaxTags == 2       \* tags per tag list of an artifact collection
MaxFields == 2     \* statements per class body handed to _rewrite_class
MaxRewrites == 3   \* times a class is rewritten
MaxInitStmts == 3  \* statements per __init__ module

----------------------------------------------------------------------------
(* Names *)

GQL_RESULT_CLASS_NAME == "GQLResult"

\* Class names a generated module defines, and the names a base may have:
\* a class of the module or the imported GQLResult.
ClassNames == {"A", "B", "C"}
BaseNames == ClassNames \cup {GQL_RESULT_CLASS_NAME}

\* str.__lt__ on the names in use: "A" < "B" < "C" < "GQLResult".
NameOrder == <<"A", "B", "C", "GQLResult">>
NameRank == [n \in BaseNames |-> CHOOSE i \in 1..Len(NameOrder) : NameOrder[i] = n]

Range(s) == {s[i] : i \in 1..Len(s)}

Reversed(s) == [i \in 1..Len(s) |-> s[Len(s) + 1 - i]]

\* Sequences over S without repetition, of length at most n.
DistinctSeqs(S, n) ==
    {s \in UNION {[1..k -> S] : k \in 0..n} :
        \A i, j \in 1..Len(s) : i # j => s[i] # s[j]}

----------------------------------------------------------------------------
(* Statements (ast.stmt) *)

ClassDef(name, bases, body) ==
    [type |-> "ClassDef", name |-> name, bases |-> bases, body |-> body]
ImportFrom(mod) == [type |-> "ImportFrom", module |-> mod]
Pass == [type |-> "Pass"]

is_class_def(stmt) == stmt.type = "ClassDef"
is_import_from(stmt) == stmt.type = "ImportFrom"

\* An ignored variant of base_class_names: every class looks like a root.
base_class_names_none(class_def) == <<>>

base_class_names(class_def) == class_def.bases

make_model_rebuild(class_name) ==
    [type |-> "Expr", value |-> <<class_name, "model_rebuild">>]

----------------------------------------------------------------------------
(* sorted(iterable, key=...): Python's sort is stable; key is a function    *)
(* from class names to integers.                                           *)

RECURSIVE InsertByKey(_, _, _)
InsertByKey(sortedSeq, x, key) ==
    IF sortedSeq = <<>> THEN <<x>>
    ELSE LET last == sortedSeq[Len(sortedSeq)] IN
         IF key[last.name] <= key[x.name]
         THEN Append(sortedSeq, x)
         ELSE Append(InsertByKey(SubSeq(sortedSeq, 1, Len(sortedSeq) - 1), x, key), last)

RECURSIVE SortedByKey(_, _)
SortedByKey(seq, key) ==
    IF seq = <<>> THEN <<>>
    ELSE InsertByKey(SortedByKey(SubSeq(seq, 1, Len(seq) - 1), key), seq[Len(seq)], key)

\* The pre-sort left out: the classes stay in the order of the input.
SortedByNameSkipped(class_defs) == class_defs

SortedByName(class_defs) == SortedByKey(class_defs, NameRank)

----------------------------------------------------------------------------
(* graphlib.TopologicalSorter, as _sorted_class_defs uses it               *)

AppendNew(seq, x) == IF x \in Range(seq) THEN seq ELSE Append(seq, x)

RECURSIVE AppendAllNew(_, _)
AppendAllNew(seq, xs) ==
    IF xs = <<>> THEN seq
    ELSE AppendAllNew(AppendNew(seq, Head(xs)), Tail(xs))

\* The keys of TopologicalSorter._node2info in insertion order: add(node, *preds)
\* creates the node's entry, then one entry per predecessor not yet known.
RECURSIVE NodeOrder(_, _)
NodeOrder(ordered, acc) ==
    IF ordered = <<>> THEN acc
    ELSE NodeOrder(Tail(ordered),
                   AppendAllNew(AppendNew(acc, Head(ordered).name),
                                base_class_names(Head(ordered))))

\* npredecessors of each node after every add().
NPredecessors(ordered, nodes) ==
    [n \in Range(nodes) |->
        IF \E i \in 1..Len(ordered) : ordered[i].name = n
        THEN Len(base_class_names(
                 ordered[CHOOSE i \in 1..Len(ordered) : ordered[i].name = n]))
        ELSE 0]

\* successors of a node: the classes naming it as a base, in the order added.
RECURSIVE Successors(_, _)
Successors(ordered, n) ==
    IF ordered = <<>> THEN <<>>
    ELSE (IF n \in Range(base_class_names(Head(ordered)))
          THEN <<Head(ordered).name>> ELSE <<>>)
         \o Successors(Tail(ordered), n)

\* done(node): each successor loses a predecessor and is ready at zero.
RECURSIVE DoneSuccessors(_, _, _)
DoneSuccessors(succs, npred, ready) ==
    IF succs = <<>> THEN [npred |-> npred, ready |-> ready]
    ELSE LET s == Head(succs)
             np == [npred EXCEPT ![s] = @ - 1]
         IN DoneSuccessors(Tail(succs), np,
                           IF np[s] = 0 THEN Append(ready, s) ELSE ready)

RECURSIVE DoneAll(_, _, _, _)
DoneAll(ordered, group, npred, ready) ==
    IF group = <<>> THEN [npred |-> npred, ready |-> ready]
    ELSE LET r == DoneSuccessors(Successors(ordered, Head(group)), npred, ready)
         IN DoneAll(ordered, Tail(group), r.npred, r.ready)

\* static_order(): while active, yield get_ready() and mark it done.
RECURSIVE StaticOrderLoop(_, _, _, _)
StaticOrderLoop(ordered, ready, npred, out) ==
    IF ready = <<>> THEN out
    ELSE LET r == DoneAll(ordered, ready, npred, <<>>)
         IN StaticOrderLoop(ordered, r.ready, r.npred, out \o ready)

StaticOrder(ordered) ==
    LET nodes == NodeOrder(ordered, <<>>)
        npred == NPredecessors(ordered, nodes)
        ready == SelectSeq(nodes, LAMBDA n : npred[n] = 0)
    IN StaticOrderLoop(ordered, ready, npred, <<>>)

\* FixFragmentOrder._sorted_class_defs
sorted_class_defs(class_defs) ==
    LET ordered == SortedByName(class_defs)
        order == StaticOrder(ordered)
        name2idx == [n \in Range(order) |->
                        (CHOOSE i \in 1..Len(order) : order[i] = n) - 1]
    IN SortedByKey(ordered, name2idx)

----------------------------------------------------------------------------
(* Class hierarchies: the class definitions a generated module may hold.    *)
(* Names are distinct, a class is no base of itself, and no class is its    *)
(* own ancestor (Python cannot define such classes).                        *)

Parents(bases, X) == UNION {Range(bases[n]) \cap DOMAIN bases : n \in X}

RECURSIVE AncestorsUpTo(_, _, _)
AncestorsUpTo(bases, X, k) ==
    IF k = 0 THEN X ELSE AncestorsUpTo(bases, X \cup Parents(bases, X), k - 1)

\* The classes of the module that n derives from, directly or not.
Ancestors(bases, n) ==
    AncestorsUpTo(bases, Parents(bases, {n}), Cardinality(DOMAIN bases))

Acyclic(bases) == \A n \in DOMAIN bases : n \notin Ancestors(bases, n)

BaseLists(n) == DistinctSeqs(BaseNames \ {n}, MaxBases)

\* Every acyclic assignment of base lists to a set of class names.
BaseMaps ==
    UNION {{b \in [S -> DistinctSeqs(BaseNames, MaxBases)] :
               /\ \A n \in S : b[n] \in BaseLists(n)
               /\ Acyclic(b)} : S \in SUBSET ClassNames}

\* The class definitions of a base map, in every order.
Hierarchies ==
    UNION {{[i \in 1..Len(o) |-> ClassDef(o[i], b[o[i]], <<Pass>>)] :
               o \in {p \in DistinctSeqs(DOMAIN b, Cardinality(DOMAIN b)) :
                         Len(p) = Cardinality(DOMAIN b)}} : b \in BaseMaps}

----------------------------------------------------------------------------
(* The hooks *)

NoObject == [kind |-> "none"]

\* No length was returned.
NoLength == -1

PaginatorsIdle ==
    /\ paginators = <<>>
    /\ dicts = <<>>
    /\ length = NoLength

ArtifactsIdle ==
    /\ collection = NoObject
    /\ artifact_type = NoObject
    /\ args = NoObject
    /\ op = "none"
    /\ calls = <<>>
    /\ outcome = "ok"
    /\ PaginatorsIdle

CodegenIdle ==
    /\ input = module
    /\ hook = "none"
    /\ raised = "none"
    /\ classes_to_drop = {}
    /\ runs = 0
    /\ first_result = <<>>

\* FixFragmentOrder._sorted_class_defs, applied to the class definitions.
SortClassDefs ==
    /\ hook = "none"
    /\ module' = sorted_class_defs(module)
    /\ hook' = "sorted_class_defs"
    /\ runs' = runs + 1
    /\ first_result' = module'
    /\ UNCHANGED <<input, raised, classes_to_drop, artifactVars, paginatorVars>>

InitSort ==
    /\ module \in Hierarchies
    /\ CodegenIdle
    /\ ArtifactsIdle

NextSort == SortClassDefs

SpecSort == InitSort /\ [][NextSort]_vars

----------------------------------------------------------------------------
(* Properties of _sorted_class_defs *)

Names(class_defs) == {class_defs[i].name : i \in 1..Len(class_defs)}

IndexOf(class_defs, n) ==
    CHOOSE i \in 1..Len(class_defs) : class_defs[i].name = n

\* The bases of the class named n as the input module wrote them.
InputBases(n) == input[IndexOf(input, n)].bases

\* The length of the longest chain of bases above n; a name the module does
\* not define (GQLResult, an imported class) ends the chain.
RECURSIVE Generation(_)
Generation(n) ==
    IF n \notin Names(input) \/ InputBases(n) = <<>> THEN 0
    ELSE LET above == {Generation(b) : b \in Range(InputBases(n))}
         IN 1 + (CHOOSE g \in above : \A h \in above : h <= g)

Sorted == hook = "sorted_class_defs"

\* C1: the output of _sorted_class_defs is a permutation of its input (no
\* class lost, none duplicated) and every class stands after each of its
\* bases that the module defines.
C1_ParentsBeforeChildren ==
    Sorted =>
        /\ Len(module) = Len(input)
        /\ Range(module) = Range(input)
        /\ \A i, j \in 1..Len(module) :
              module[j].name \in Range(module[i].bases) => j < i

\* C1 witness: three classes were sorted, the input had a child before its
\* parent, and the output differs from the input.
C1_Witness ==
    /\ Sorted
    /\ Len(input) = 3
    /\ module # input
    /\ \E i, j \in 1..Len(input) :
          i < j /\ input[j].name \in Range(input[i].bases)

\* A class is free at position i when every base of it that the module
\* defines stands before i.
FreeAt(i, j) ==
    \A b \in Range(module[j].bases) \cap Names(module) :
        IndexOf(module, b) < i

\* C2 (as claimed): whenever two classes are both free to be placed next,
\* the one with the lexicographically smaller name is placed first.
C2_LexicographicTieBreak ==
    Sorted =>
        \A i, j \in 1..Len(module) :
            (i < j /\ FreeAt(i, i) /\ FreeAt(i, j))
                => NameRank[module[i].name] < NameRank[module[j].name]

\* C2 (amended): the classes are ordered by generation, the length of the
\* longest chain of bases above a class (bases the module does not define
\* included); name order is kept between classes with the same non-empty
\* set of bases.
C2_GenerationThenSiblingName ==
    Sorted =>
        /\ \A i, j \in 1..Len(module) :
              i < j => Generation(module[i].name) <= Generation(module[j].name)
        /\ \A i, j \in 1..Len(module) :
              (/\ module[i].bases # <<>>
               /\ Range(module[i].bases) = Range(module[j].bases)
               /\ NameRank[module[i].name] < NameRank[module[j].name]) => i < j

\* C2 witness: two classes with the same non-empty bases were handed over in
\* reverse name order, and the output holds a free class placed after a free
\* class with a larger name.
C2_Witness ==
    /\ Sorted
    /\ \E i, j \in 1..Len(input) :
          /\ i < j
          /\ input[i].bases # <<>>
          /\ Range(input[i].bases) = Range(input[j].bases)
          /\ NameRank[input[j].name] < NameRank[input[i].name]
    /\ \E i, j \in 1..Len(module) :
          /\ i < j /\ FreeAt(i, i) /\ FreeAt(i, j)
          /\ NameRank[module[j].name] < NameRank[module[i].name]

\* The orders in which the class definitions of class_defs may be handed over.
PermutationsOf(class_defs) ==
    {p \in [1..Len(class_defs) -> Range(class_defs)] :
        Range(p) = Range(class_defs)}

\* C21: for a fixed set of class definitions with distinct names,
\* _sorted_class_defs returns the same order whatever order its input has:
\* every permutation of the input is sorted to the output that was returned.
C21_SameOrderForEveryPermutation ==
    Sorted =>
        \A p \in PermutationsOf(input) : sorted_class_defs(p) = module

\* C21 witness: three classes were sorted, two of them roots that the input
\* held in reverse name order, and the reversed input is another permutation.
C21_Witness ==
    /\ Sorted
    /\ Len(input) = 3
    /\ Reversed(input) \in PermutationsOf(input) \ {input}
    /\ \E i, j \in 1..Len(input) :
          /\ i < j
          /\ input[i].bases = <<>> /\ input[j].bases = <<>>
          /\ NameRank[input[j].name] < NameRank[input[i].name]

----------------------------------------------------------------------------
(* FixFragmentOrder.generate_fragments_module *)

\* The statements a fragments module is made of here: two imports, three
\* class definitions, a model_rebuild() call, and two statements of types
\* the hook does not expect.
FragmentStmts ==
    {ImportFrom("m1"), ImportFrom("m2"),
     ClassDef("A", <<GQL_RESULT_CLASS_NAME>>, <<Pass>>),
     ClassDef("B", <<"A">>, <<Pass>>),
     ClassDef("C", <<>>, <<Pass>>),
     make_model_rebuild("A"),
     [type |-> "Assign"], [type |-> "Import"]}

\* Module bodies of at most MaxStmts statements, class names distinct.
FragmentModules ==
    {b \in UNION {[1..k -> FragmentStmts] : k \in 0..MaxStmts} :
        \A i, j \in 1..Len(b) :
            (i # j /\ is_class_def(b[i]) /\ is_class_def(b[j]))
                => b[i].name # b[j].name}

\* grouped_stmts[stmt_type] after the groupby loop: the statements of the
\* type, in the order of the body.
GroupedStmts(body, stmt_type) == SelectSeq(body, LAMBDA st : st.type = stmt_type)

StmtTypes(body) == {body[i].type : i \in 1..Len(body)}

ExpectedStmtTypes == {"ImportFrom", "ClassDef", "Expr"}

\* sorted() of a set of classes: comparing two type objects raises TypeError,
\* so it returns only for a set of at most one element.
SortedTypesRaises(types) == Cardinality(types) >= 2

\* What the check of the statement types raises ("none" when it passes).
UnexpectedStmtsError(body) ==
    LET actual == StmtTypes(body) IN
    IF actual = ExpectedStmtTypes THEN "none"
    ELSE IF SortedTypesRaises(actual \ ExpectedStmtTypes) THEN "TypeError"
    ELSE IF SortedTypesRaises(ExpectedStmtTypes \ actual) THEN "TypeError"
    ELSE "ValueError"

RebuildsOf(class_defs) ==
    [i \in 1..Len(class_defs) |-> make_model_rebuild(class_defs[i].name)]

\* The rebuild calls follow the order of the input, not the sorted order.
FragmentsBodyUnsortedRebuilds(body) ==
    GroupedStmts(body, "ImportFrom")
        \o sorted_class_defs(GroupedStmts(body, "ClassDef"))
        \o RebuildsOf(GroupedStmts(body, "ClassDef"))

\* module.body = [*imports, *ordered_class_defs, *model_rebuilds]
FragmentsBody(body) ==
    LET imports == GroupedStmts(body, "ImportFrom")
        ordered_class_defs == sorted_class_defs(GroupedStmts(body, "ClassDef"))
    IN imports \o ordered_class_defs \o RebuildsOf(ordered_class_defs)

GenerateFragmentsModule ==
    /\ hook = "none"
    /\ hook' = "generate_fragments_module"
    /\ raised' = UnexpectedStmtsError(module)
    /\ module' = IF raised' = "none" THEN FragmentsBody(module) ELSE module
    /\ runs' = runs + 1
    /\ first_result' = module'
    /\ UNCHANGED <<input, classes_to_drop, artifactVars, paginatorVars>>

InitFragments ==
    /\ module \in FragmentModules
    /\ CodegenIdle
    /\ ArtifactsIdle

NextFragments == GenerateFragmentsModule

SpecFragments == InitFragments /\ [][NextFragments]_vars

----------------------------------------------------------------------------
(* Properties of FixFragmentOrder.generate_fragments_module *)

FragmentsDone == hook = "generate_fragments_module"

InputOfType(stmt_type) == SelectSeq(input, LAMBDA st : st.type = stmt_type)

\* C5: the returned body is the imports in their original relative order,
\* then the class definitions (all of them, parents before children), then
\* exactly one model_rebuild() call per class in the order of the class
\* definitions; no expression statement of the input is kept.
C5_ImportsClassesRebuilds ==
    (FragmentsDone /\ raised = "none") =>
        LET ni == Len(InputOfType("ImportFrom"))
            nc == Len(InputOfType("ClassDef"))
        IN /\ Len(module) = ni + nc + nc
           /\ SubSeq(module, 1, ni) = InputOfType("ImportFrom")
           /\ \A k \in 1..nc : is_class_def(module[ni + k])
           /\ {module[ni + k] : k \in 1..nc} = Range(InputOfType("ClassDef"))
           /\ \A i, j \in 1..nc :
                 module[ni + j].name \in Range(module[ni + i].bases) => j < i
           /\ \A k \in 1..nc :
                 module[ni + nc + k] = make_model_rebuild(module[ni + k].name)

\* C5 witness: a module with two imports, two classes given child first and
\* an expression statement between them was rewritten.
C5_Witness ==
    /\ FragmentsDone /\ raised = "none"
    /\ Len(InputOfType("ImportFrom")) = 2
    /\ InputOfType("ImportFrom")[1] # InputOfType("ImportFrom")[2]
    /\ Len(InputOfType("ClassDef")) = 2
    /\ InputOfType("ClassDef")[2].name \in Range(InputOfType("ClassDef")[1].bases)
    /\ input[1].type = "Expr"
    /\ module # input

\* C6 (as claimed): whenever the set of statement types differs from
\* {ImportFrom, ClassDef, Expr} the hook raises ValueError and leaves the
\* module body unchanged.
C6_RaisesValueError ==
    (FragmentsDone /\ StmtTypes(input) # ExpectedStmtTypes) =>
        (raised = "ValueError" /\ module = input)

----------------------------------------------------------------------------
(* Redundant subclasses: is_redundant_subclass_def, RedundantClassReplacer  *)
(* and GraphQLCodegenPlugin._replace_redundant_classes                      *)

AnnAssign(target, annotation) ==
    [type |-> "AnnAssign", target |-> target, annotation |-> annotation]

\* An implicit forward reference: the name inside double quotes.
ForwardRef(n) ==
    CASE n = "A" -> "\"A\"" [] n = "B" -> "\"B\"" [] n = "C" -> "\"C\""

\* str.strip("'\"") on the identifiers in use.
StripQuotes(id) ==
    CASE id = "\"A\"" -> "A" [] id = "\"B\"" -> "B" [] id = "\"C\"" -> "C"
      [] OTHER -> id

\* The comparison with GQLResult turned around.
is_redundant_subclass_def_inverted(stmt) ==
    /\ is_class_def(stmt)
    /\ Len(stmt.bases) = 1
    /\ Len(stmt.body) = 1
    /\ \/ stmt.body[1].type = "Pass"
       \/ /\ stmt.bases[1] = GQL_RESULT_CLASS_NAME
          /\ stmt.body[1].type = "AnnAssign"
          /\ stmt.body[1].target = "typename__"

is_redundant_subclass_def(stmt) ==
    /\ is_class_def(stmt)
    /\ Len(stmt.bases) = 1
    /\ Len(stmt.body) = 1
    /\ \/ stmt.body[1].type = "Pass"
       \/ /\ stmt.bases[1] # GQL_RESULT_CLASS_NAME
          /\ stmt.body[1].type = "AnnAssign"
          /\ stmt.body[1].target = "typename__"

\* class_name_replacements: redundant subclass -> parent class (a later
\* definition of the same name overwrites an earlier one).
ClassNameReplacements(body) ==
    LET redundant == SelectSeq(body, is_redundant_subclass_def)
    IN [n \in Names(redundant) |->
          LET last == CHOOSE i \in 1..Len(redundant) :
                        /\ redundant[i].name = n
                        /\ \A j \in 1..Len(redundant) :
                              redundant[j].name = n => j <= i
          IN base_class_names(redundant[last])[1]]

\* RedundantClassReplacer.visit_Name: one lookup of the unquoted name.
VisitName(id, replacement_names) ==
    LET unquoted_name == StripQuotes(id) IN
    IF unquoted_name \in DOMAIN replacement_names
    THEN replacement_names[unquoted_name]
    ELSE id

\* generic_visit of a statement that is no class definition.
VisitStmt(stmt, replacement_names) ==
    CASE stmt.type = "AnnAssign" ->
            AnnAssign(VisitName(stmt.target, replacement_names),
                      VisitName(stmt.annotation, replacement_names))
      [] stmt.type = "Expr" ->
            [stmt EXCEPT !.value[1] = VisitName(@, replacement_names)]
      [] OTHER -> stmt

\* RedundantClassReplacer.visit_ClassDef on a class that is kept.
VisitClassDef(node, replacement_names) ==
    ClassDef(node.name,
             [i \in 1..Len(node.bases) |-> VisitName(node.bases[i], replacement_names)],
             [i \in 1..Len(node.body) |-> VisitStmt(node.body[i], replacement_names)])

\* RedundantClassReplacer(replacement_names).visit(module)
RECURSIVE VisitBody(_, _)
VisitBody(body, replacement_names) ==
    IF body = <<>> THEN <<>>
    ELSE LET stmt == Head(body)
             rest == VisitBody(Tail(body), replacement_names)
         IN IF is_class_def(stmt)
            THEN IF stmt.name \in DOMAIN replacement_names
                 THEN rest
                 ELSE <<VisitClassDef(stmt, replacement_names)>> \o rest
            ELSE <<VisitStmt(stmt, replacement_names)>> \o rest

\* GraphQLCodegenPlugin._replace_redundant_classes
ReplaceRedundantClasses ==
    /\ hook \in {"none", "_replace_redundant_classes"}
    /\ runs < 2
    /\ LET class_name_replacements == ClassNameReplacements(module) IN
          /\ classes_to_drop' = classes_to_drop \cup DOMAIN class_name_replacements
          /\ module' = VisitBody(module, class_name_replacements)
    /\ hook' = "_replace_redundant_classes"
    /\ runs' = runs + 1
    /\ first_result' = IF runs = 0 THEN module' ELSE first_result
    /\ UNCHANGED <<input, raised, artifactVars, paginatorVars>>

\* The base lists of the classes of a result module: no base, one base, or
\* several bases the last of which is GQLResult.
ResultBaseLists(n) ==
    {b \in BaseLists(n) : Len(b) <= 1 \/ b[Len(b)] = GQL_RESULT_CLASS_NAME}

\* The bodies of the classes of a result module.
ResultBodies(n) ==
    {<<Pass>>,
     <<AnnAssign("typename__", "str")>>,
     <<AnnAssign("typename__", "str"), AnnAssign("node", "str")>>}
    \cup {<<AnnAssign("node", p)>> : p \in ClassNames \ {n}}
    \cup {<<AnnAssign("node", ForwardRef(p))>> : p \in ClassNames \ {n}}

ResultClassDefs(n) ==
    {ClassDef(n, b, body) : b \in ResultBaseLists(n), body \in ResultBodies(n)}

\* A class definition of the name, or none.
OptionalClassDef(n) == {<<d>> : d \in ResultClassDefs(n)} \cup {<<>>}

BasesOf(class_defs) ==
    [n \in Names(class_defs) |-> class_defs[IndexOf(class_defs, n)].bases]

\* Result modules: class definitions with distinct names, acyclic, in name
\* order, ascending or descending.
InitRedundant ==
    /\ \E a \in OptionalClassDef("A"), b \in OptionalClassDef("B"),
          c \in OptionalClassDef("C"), descending \in BOOLEAN :
          /\ Acyclic(BasesOf(a \o b \o c))
          /\ module = IF descending THEN Reversed(a \o b \o c) ELSE a \o b \o c
    /\ CodegenIdle
    /\ ArtifactsIdle

NextRedundant == ReplaceRedundantClasses

SpecRedundant == InitRedundant /\ [][NextRedundant]_vars

----------------------------------------------------------------------------
(* Properties of redundant-subclass elimination *)

\* The names a module body refers to: bases, annotation targets and
\* annotations (forward references unquoted), and names in expressions.
NamesOfStmt(stmt) ==
    CASE stmt.type = "AnnAssign" -> {StripQuotes(stmt.target), StripQuotes(stmt.annotation)}
      [] stmt.type = "Expr" -> {StripQuotes(stmt.value[1])}
      [] OTHER -> {}

ReferencedNames(body) ==
    UNION {IF is_class_def(body[i])
           THEN {StripQuotes(body[i].bases[k]) : k \in 1..Len(body[i].bases)}
                \cup UNION {NamesOfStmt(body[i].body[k]) : k \in 1..Len(body[i].body)}
           ELSE NamesOfStmt(body[i]) : i \in 1..Len(body)}

\* C3: redundant-subclass elimination is idempotent: the module body after
\* the second run equals the module body after the first.
C3_Idempotent ==
    (hook = "_replace_redundant_classes" /\ runs = 2) => module = first_result

\* C3 witness: the first run removed a class and rewrote a reference, and a
\* second run has been made.
C3_Witness ==
    /\ hook = "_replace_redundant_classes" /\ runs = 2
    /\ Len(first_result) < Len(input)
    /\ first_result # <<>>
    /\ \A i \in 1..Len(input) : first_result[1] # input[i]

\* C4 (as claimed): after the elimination no redundant subclass is defined
\* in the module and no name left in it (base class, annotation or forward
\* reference) refers to a removed class.
C4_NoReferenceToRemovedClass ==
    (hook = "_replace_redundant_classes" /\ runs = 1) =>
        /\ Names(SelectSeq(module, is_class_def)) \cap classes_to_drop = {}
        /\ ReferencedNames(module) \cap classes_to_drop = {}

\* A statement that may be the whole body of a redundant subclass: `pass` or
\* an annotation of `typename__`.
PassOrTypename(stmt) ==
    \/ stmt.type = "Pass"
    \/ stmt.type = "AnnAssign" /\ stmt.target = "typename__"

\* The classes the elimination has to keep: more than one base class, a
\* body of more than one statement or of one statement other than `pass` or
\* a `typename__` annotation, or a direct subclass of GQLResult whose body
\* is only a `typename__` annotation.
KeptShape(stmt) ==
    /\ is_class_def(stmt)
    /\ \/ Len(stmt.bases) > 1
       \/ Len(stmt.body) > 1
       \/ Len(stmt.body) = 1 /\ ~PassOrTypename(stmt.body[1])
       \/ /\ stmt.bases = <<GQL_RESULT_CLASS_NAME>>
          /\ Len(stmt.body) = 1
          /\ stmt.body[1].type = "AnnAssign"
          /\ stmt.body[1].target = "typename__"

\* C25: every run of the elimination keeps each class of the module that
\* has more than one base, a body other than a single `pass` or `typename__`
\* annotation, or GQLResult as its only base and a `typename__` annotation
\* as its only statement: the class is still defined after the run.
C25_OnlyRedundantSubclassesRemoved ==
    [][\A i \in 1..Len(module) :
          KeptShape(module[i]) =>
              \E j \in 1..Len(module') :
                  /\ is_class_def(module'[j])
                  /\ module'[j].name = module[i].name]_vars

\* C25 witness: a run removed a class from a module that also held a class
\* with two bases and a direct subclass of GQLResult with only a
\* `typename__` annotation.
C25_Witness ==
    /\ hook = "_replace_redundant_classes" /\ runs = 1
    /\ Len(module) < Len(input)
    /\ \E i, j \in 1..Len(input) :
          /\ Len(input[i].bases) > 1
          /\ input[j].bases = <<GQL_RESULT_CLASS_NAME>>
          /\ input[j].body = <<AnnAssign("typename__", "str")>>

----------------------------------------------------------------------------
(* Field declarations (ast.AnnAssign with annotation and value) and        *)
(* GraphQLCodegenPlugin._rewrite_field, _rewrite_class                      *)

\* Expressions (ast.expr). A missing value (None) is NoValue.
Name(id) == [type |-> "Name", id |-> id]
Constant(value) == [type |-> "Constant", value |-> value]
Subscript(value, slice) ==
    [type |-> "Subscript", value |-> value, slice |-> slice]
Tuple(elts) == [type |-> "Tuple", elts |-> elts]
keyword(arg, value) == [arg |-> arg, value |-> value]
Call(func, arguments, keywords) ==
    [type |-> "Call", func |-> func, args |-> arguments, keywords |-> keywords]
NoValue == [type |-> "None"]

\* The class patterns of the match statement: ast.Name(id) and
\* ast.Call(ast.Name(id), ...).
is_name(expr, id) == expr.type = "Name" /\ expr.id = id
is_call_of(expr, id) == expr.type = "Call" /\ is_name(expr.func, id)

\* generate_ann_assign(target, annotation, value): the target is a name.
generate_ann_assign(target, annotation, value) ==
    [type |-> "AnnAssign", target |-> target,
     annotation |-> annotation, value |-> value]

\* make_subscript(name, inner) with inner an expression; a str inner is
\* handed over as the Constant it is wrapped in.
make_subscript(name, inner_node) == Subscript(Name(name), inner_node)

\* {kw.arg: kw.value for kw in pydantic_field_kws}: a key keeps its first
\* position and takes its last value.
RECURSIVE DictItems(_, _)
DictItems(kws, acc) ==
    IF kws = <<>> THEN acc
    ELSE LET kw == Head(kws) IN
         DictItems(Tail(kws),
                   IF \E i \in 1..Len(acc) : acc[i].arg = kw.arg
                   THEN [i \in 1..Len(acc) |->
                            IF acc[i].arg = kw.arg THEN kw ELSE acc[i]]
                   ELSE Append(acc, kw))

\* make_pydantic_field(**kws): Field() with the keywords and no argument.
make_pydantic_field(kws) == Call(Name("Field"), <<>>, kws)

\* A variant of the test of the type name that finds none.
HasTypenameNever(gql_typename) == FALSE

\* `if gql_typename:`; "None" stands for None.
HasTypename(gql_typename) == gql_typename # "None"

\* A variant of the test for an annotation that is Typename[...] already:
\* it never recognises one.
already_typename_never(annotation) == FALSE

\* ast.Subscript(ast.Name("Typename"))
already_typename(annotation) ==
    annotation.type = "Subscript" /\ is_name(annotation.value, "Typename")

\* A variant of the guard of the Union case that takes a Union of any
\* number of members.
single_member_any(elts) == Len(elts) >= 1

\* (only_type, *others) if not others
single_member(elts) == Len(elts) = 1

\* ast.Subscript(ast.Name("Union"), ast.Tuple((only_type, *others)))
is_union_of_tuple(annotation) ==
    /\ annotation.type = "Subscript"
    /\ is_name(annotation.value, "Union")
    /\ annotation.slice.type = "Tuple"
    /\ Len(annotation.slice.elts) >= 1

\* GraphQLCodegenPlugin._rewrite_field: the cases of the match statement in
\* their order. The result is the field returned, or the exception raised.
rewrite_field(node, gql_typename) ==
    LET target == node.target
        annotation == node.annotation
        value == node.value
        returns(n) == [raised |-> "none", node |-> n]
    IN
    IF is_name(annotation, "GQLId") /\ is_call_of(value, "Field")
    THEN LET kws == DictItems(value.keywords, <<>>) IN
         \* make_pydantic_field(**kws, frozen=True, repr=False)
         IF \E i \in 1..Len(kws) : kws[i].arg \in {"frozen", "repr"}
         THEN [raised |-> "TypeError", node |-> node]
         ELSE returns(generate_ann_assign(
                  target, Name("str"),
                  make_pydantic_field(
                      kws \o <<keyword("frozen", Constant("True")),
                               keyword("repr", Constant("False"))>>)))
    ELSE IF target = "typename__" /\ HasTypename(gql_typename)
    THEN returns(generate_ann_assign(
             target,
             make_subscript("Typename",
                            make_subscript("Literal", Constant(gql_typename))),
             Constant(gql_typename)))
    ELSE IF target = "typename__" /\ already_typename(annotation)
    THEN returns(node)
    ELSE IF target = "typename__"
    THEN returns(generate_ann_assign(
             target, make_subscript("Typename", annotation), NoValue))
    ELSE IF /\ is_union_of_tuple(annotation)
            /\ is_call_of(value, "Field")
            /\ single_member(annotation.slice.elts)
    THEN returns(generate_ann_assign(target, annotation.slice.elts[1], NoValue))
    ELSE returns(node)

\* The body _rewrite_class builds: every ast.AnnAssign rewritten, any other
\* statement kept.
RewrittenBody(body, gql_typename) ==
    [i \in 1..Len(body) |->
        IF body[i].type = "AnnAssign"
        THEN rewrite_field(body[i], gql_typename).node
        ELSE body[i]]

\* What the list comprehension of _rewrite_class raises ("none" if nothing).
RewriteRaises(body, gql_typename) ==
    IF \E i \in 1..Len(body) :
          /\ body[i].type = "AnnAssign"
          /\ rewrite_field(body[i], gql_typename).raised # "none"
    THEN "TypeError" ELSE "none"

\* GraphQLCodegenPlugin._rewrite_class: node.body is assigned only when no
\* field raised.
rewrite_class(node, gql_typename) ==
    IF RewriteRaises(node.body, gql_typename) = "none"
    THEN [node EXCEPT !.body = RewrittenBody(node.body, gql_typename)]
    ELSE node

\* ariadne_codegen's name of the base class of a generated model.
BASE_MODEL_CLASS_NAME == "BaseModel"

\* Field(alias="...") and Field(discriminator="typename__")
FieldAlias(alias) ==
    Call(Name("Field"), <<>>, <<keyword("alias", Constant(alias))>>)
FieldDiscriminator ==
    Call(Name("Field"), <<>>, <<keyword("discriminator", Constant("typename__"))>>)

\* Literal["T1"], Literal["T1", "T2"], Union[A,], Union[A, B], Optional[X]
LiteralOf(names) ==
    Subscript(Name("Literal"),
              IF Len(names) = 1 THEN Constant(names[1])
              ELSE Tuple([i \in 1..Len(names) |-> Constant(names[i])]))
UnionOf(names) ==
    Subscript(Name("Union"), Tuple([i \in 1..Len(names) |-> Name(names[i])]))
OptionalOf(inner) == Subscript(Name("Optional"), inner)

\* The field declarations the code generator hands to the plugin: the
\* `__typename` field (a str or a Literal, under the alias), fields of the ID
\* scalar, fields of a union of object types, and plain fields.
GeneratedFields ==
    {generate_ann_assign("typename__", Name("str"), FieldAlias("__typename")),
     generate_ann_assign("typename__", LiteralOf(<<"T1">>), FieldAlias("__typename")),
     generate_ann_assign("typename__", LiteralOf(<<"T1", "T2">>), FieldAlias("__typename")),
     generate_ann_assign("id", Name("GQLId"), NoValue),
     generate_ann_assign("id", Name("GQLId"), FieldAlias("myID")),
     generate_ann_assign("id", OptionalOf(Name("GQLId")), FieldAlias("myID")),
     generate_ann_assign("node", UnionOf(<<"A">>), FieldDiscriminator),
     generate_ann_assign("node", UnionOf(<<"A", "B">>), FieldDiscriminator),
     generate_ann_assign("node", UnionOf(<<"A">>), NoValue),
     generate_ann_assign("node", OptionalOf(UnionOf(<<"A">>)), FieldDiscriminator),
     generate_ann_assign("node", Name("A"), NoValue),
     generate_ann_assign("node", Name("str"), FieldAlias("Node"))}

\* Class bodies of at most MaxFields statements: fields and `pass`.
GeneratedBodies ==
    UNION {[1..k -> GeneratedFields \cup {Pass}] : k \in 1..MaxFields}

\* The GraphQL type name of a fragment ("None": the class is no fragment).
GqlTypenames == {"None", "T1", "T2"}

\* The class the hooks work on.
class_def == module[1]

Rewritten(name, c, gql_typename) ==
    /\ raised' = RewriteRaises(c.body, gql_typename)
    /\ module' = <<rewrite_class(c, gql_typename)>>
    /\ hook' = name
    /\ runs' = runs + 1
    /\ first_result' = IF runs = 0 THEN module' ELSE first_result
    /\ args' = [kind |-> "_rewrite_class", gql_typename |-> gql_typename,
                previous |-> IF hook = "none" THEN "none" ELSE args.gql_typename]
    /\ UNCHANGED <<input, classes_to_drop, collection, artifact_type, op,
                   calls, outcome, paginatorVars>>

\* GraphQLCodegenPlugin.generate_result_class: the per-class hook, the first
\* to see a class.
GenerateResultClass ==
    /\ hook = "none"
    /\ LET base_names == base_class_names(class_def)
           bases == [i \in 1..Len(base_names) |->
                        IF base_names[i] = BASE_MODEL_CLASS_NAME
                        THEN GQL_RESULT_CLASS_NAME ELSE base_names[i]]
       IN Rewritten("generate_result_class",
                    [class_def EXCEPT !.bases = bases], "None")

\* GraphQLCodegenPlugin._rewrite_class(cls_, gql_typename), as
\* generate_fragments_module calls it on each class of the module.
RewriteClass ==
    /\ runs < MaxRewrites
    /\ \E gql_typename \in GqlTypenames :
          Rewritten("_rewrite_class", class_def, gql_typename)

InitRewrite ==
    /\ \E bases \in {<<BASE_MODEL_CLASS_NAME>>, <<"B">>}, body \in GeneratedBodies :
          module = <<ClassDef("A", bases, body)>>
    /\ CodegenIdle
    /\ ArtifactsIdle

NextRewrite == GenerateResultClass \/ RewriteClass

SpecRewrite == InitRewrite /\ [][NextRewrite]_vars

----------------------------------------------------------------------------
(* Properties of _rewrite_field *)

\* The fields of a class body: the positions holding an ast.AnnAssign.
FieldsOf(c) == {i \in 1..Len(c.body) : c.body[i].type = "AnnAssign"}

IsTypenameField(f) == f.target = "typename__"

\* `typename__: Typename[Literal[T]] = T`
TypenameFieldOf(T) ==
    [type |-> "AnnAssign", target |-> "typename__",
     annotation |-> Subscript(Name("Typename"), Subscript(Name("Literal"), Constant(T))),
     value |-> Constant(T)]

AnnotatedTypename(f) ==
    f.annotation.type = "Subscript" /\ f.annotation.value = Name("Typename")

IsUnionField(f, n) ==
    /\ f.annotation.type = "Subscript"
    /\ f.annotation.value = Name("Union")
    /\ f.annotation.slice.type = "Tuple"
    /\ Len(f.annotation.slice.elts) = n
    /\ f.value.type = "Call"
    /\ f.value.func = Name("Field")

IsIdField(f) ==
    /\ f.annotation = Name("GQLId")
    /\ f.value.type = "Call"
    /\ f.value.func = Name("Field")

\* C23: a field annotated with a Union of exactly one member and assigned a
\* Field(...) call is rewritten to the bare annotation of that member with
\* no value; a field whose Union has two or more members, and a field of
\* none of the handled shapes (ID field, typename__ field, single-member
\* Union), is returned unchanged.
C23_SingleMemberUnionUnwrapped ==
    [][\A i \in FieldsOf(class_def) :
          LET before == class_def.body[i]
              after == module'[1].body[i]
          IN /\ IsUnionField(before, 1) =>
                   after = [type |-> "AnnAssign", target |-> before.target,
                            annotation |-> before.annotation.slice.elts[1],
                            value |-> NoValue]
             /\ (\E n \in 2..3 : IsUnionField(before, n)) => after = before
             /\ (/\ ~IsIdField(before)
                 /\ ~IsTypenameField(before)
                 /\ ~IsUnionField(before, 1)) => after = before]_vars

\* C23 witness: a class with `node: Union[A,] = Field(discriminator=...)`
\* and `node: Union[A, B] = Field(discriminator=...)` was rewritten: the
\* first field is `node: A`, the second is as it was.
C23_Witness ==
    /\ hook # "none" /\ runs = 1
    /\ Len(input[1].body) = 2
    /\ input[1].body[1] = generate_ann_assign("node", UnionOf(<<"A">>), FieldDiscriminator)
    /\ input[1].body[2] = generate_ann_assign("node", UnionOf(<<"A", "B">>), FieldDiscriminator)
    /\ class_def.body[1] = generate_ann_assign("node", Name("A"), NoValue)
    /\ class_def.body[2] = input[1].body[2]

----------------------------------------------------------------------------
(* GraphQLCodegenPlugin.generate_init_module and _cleanup_init_module       *)

\* GraphQLCodegenPlugin.modules_to_drop
modules_to_drop ==
    {"async_base_client", "base_client", "base_model", "client", "exceptions"}

\* make_import_from(module, names, level): `from {module} import {names}`
\* with one alias per name, in the order of names.
make_import_from(mod, names, level) ==
    [type |-> "ImportFrom", module |-> mod, names |-> names, level |-> level]

\* make_assign(target, ast.List([...])) with the constants of the list given
\* by their values.
make_assign(target, value) ==
    [type |-> "Assign", target |-> target, value |-> value]

make_all_assignment(names) == make_assign("__all__", names)

\* imported_names(stmt): the set of the names of the aliases.
imported_names(stmt) == Range(stmt.names)

\* sorted() of a set of names.
SortedNames(S) ==
    CHOOSE s \in [1..Cardinality(S) -> S] :
        /\ Range(s) = S
        /\ \A i, j \in 1..Len(s) : i < j => NameRank[s[i]] < NameRank[s[j]]

\* The orders in which the elements of a set may be iterated: the order of
\* a set of str follows the hashes, which differ from run to run.
Orders(S) == {s \in [1..Cardinality(S) -> S] : Range(s) = S}

\* A variant of collect_imported_names without sorted(): the names in the
\* order of the aliases.
RECURSIVE collect_imported_names_unsorted(_)
collect_imported_names_unsorted(stmts) ==
    IF stmts = <<>> THEN <<>>
    ELSE Head(stmts).names \o collect_imported_names_unsorted(Tail(stmts))

\* list(chain.from_iterable(map(sorted, map(imported_names, stmts))))
RECURSIVE collect_imported_names(_)
collect_imported_names(stmts) ==
    IF stmts = <<>> THEN <<>>
    ELSE SortedNames(imported_names(Head(stmts)))
             \o collect_imported_names(Tail(stmts))

\* The import statements _cleanup_init_module keeps, as they stand in the
\* module.
ImportsToKeep(body) ==
    SelectSeq(body, LAMBDA stmt :
        is_import_from(stmt) /\ stmt.module \notin modules_to_drop)

\* kept_imports: each kept statement made anew from the set
\* imported_names(imp) - classes_to_drop, in any order of that set.
RECURSIVE KeptImports(_, _)
KeptImports(imps, to_drop) ==
    IF imps = <<>> THEN {<<>>}
    ELSE {<<make_import_from(Head(imps).module, names, Head(imps).level)>> \o rest :
             names \in Orders(imported_names(Head(imps)) \ to_drop),
             rest \in KeptImports(Tail(imps), to_drop)}

\* GraphQLCodegenPlugin._cleanup_init_module
cleanup_init_module(kept_imports) ==
    kept_imports \o <<make_all_assignment(collect_imported_names(kept_imports))>>

\* GraphQLCodegenPlugin.generate_init_module
GenerateInitModule ==
    /\ hook = "none"
    /\ \E kept_imports \in KeptImports(ImportsToKeep(module), classes_to_drop) :
          module' = cleanup_init_module(kept_imports)
    /\ hook' = "generate_init_module"
    /\ runs' = runs + 1
    /\ first_result' = module'
    /\ UNCHANGED <<input, raised, classes_to_drop, artifactVars, paginatorVars>>

\* The statements of a generated __init__ module: imports from modules that
\* are dropped and from modules that stay, names in any order, and the
\* generated `__all__`.
InitStmts ==
    {make_import_from("base_client", <<"A">>, 1),
     make_import_from("client", <<"C", "B">>, 1),
     make_import_from("fragments", <<"A">>, 1),
     make_import_from("fragments", <<"B", "A">>, 1),
     make_import_from("enums", <<"C">>, 1),
     make_import_from("enums", <<"C", "A", "B">>, 1),
     make_import_from("input_types", <<"A", "C">>, 1),
     make_all_assignment(<<"A", "B", "C">>)}

InitModules == UNION {[1..k -> InitStmts] : k \in 0..MaxInitStmts}

InitCleanup ==
    /\ module \in InitModules
    /\ classes_to_drop \in SUBSET {"A", "B"}
    /\ input = module
    /\ hook = "none"
    /\ raised = "none"
    /\ runs = 0
    /\ first_result = <<>>
    /\ ArtifactsIdle

NextCleanup == GenerateInitModule

SpecCleanup == InitCleanup /\ [][NextCleanup]_vars

----------------------------------------------------------------------------
(* Properties of _cleanup_init_module *)

InitDone == hook = "generate_init_module"

\* How many names the first k import statements import.
RECURSIVE NamesBefore(_, _)
NamesBefore(body, k) ==
    IF k = 0 THEN 0
    ELSE NamesBefore(body, k - 1) + Cardinality(Range(body[k].names))

\* C24: the module returned is import-from statements followed by one
\* `__all__` assignment; no import is from a module of modules_to_drop; no
\* imported name is in classes_to_drop; `__all__` lists, statement after
\* statement, the names each import statement imports, in ascending order
\* within the statement, and nothing else.
C24_ImportsThenAll ==
    InitDone =>
        LET n == Len(module) - 1
            all == module[Len(module)]
        IN /\ Len(module) >= 1
           /\ all.type = "Assign" /\ all.target = "__all__"
           /\ \A k \in 1..n :
                 /\ is_import_from(module[k])
                 /\ module[k].module \notin modules_to_drop
                 /\ Range(module[k].names) \cap classes_to_drop = {}
                 /\ LET first == NamesBefore(module, k - 1) + 1
                        last == NamesBefore(module, k)
                    IN /\ {all.value[i] : i \in first..last} = Range(module[k].names)
                       /\ \A i, j \in first..last :
                             i < j => NameRank[all.value[i]] < NameRank[all.value[j]]
           /\ Len(all.value) = NamesBefore(module, n)

\* C24 witness: an import from a dropped module and a dropped class were
\* removed, two imports were kept, the first of them with its names not in
\* ascending order, and `__all__` lists four names.
C24_Witness ==
    /\ InitDone
    /\ \E i \in 1..Len(input) :
          is_import_from(input[i]) /\ input[i].module \in modules_to_drop
    /\ classes_to_drop = {"B"}
    /\ Len(module) = 3
    /\ module[1].names = <<"C", "A">>
    /\ module[2].names = <<"A", "C">>
    /\ module[3].value = <<"A", "C", "A", "C">>

----------------------------------------------------------------------------
(* The public artifacts API: ArtifactType and ArtifactCollection *)

CollectionNames == {"n1", "n2"}
Descriptions == {"None", "d1"}
Tags == {"a", "b", "c"}
TagOrder == <<"a", "b", "c">>

\* Artifact type names; "job" is an internal type.
ArtifactTypeNames == {"model", "dataset", "job"}
InternalTypes == {"job"}

SOURCE_ARTIFACT_COLLECTION_TYPE == "ArtifactSequence"
LINKED_ARTIFACT_COLLECTION_TYPE == "ArtifactPortfolio"

\* Tag lists of at most MaxTags tags, written in alphabetical order.
TagLists ==
    {SelectSeq(TagOrder, LAMBDA t : t \in S) :
        S \in {T \in SUBSET Tags : Cardinality(T) <= MaxTags}}

\* set(list)
ToSet(list) == Range(list)

\* validate_artifact_type raises ValueError for an internal type.
validate_artifact_type_raises(typ) == typ \in InternalTypes

\* The attrs argument: None, or a fragment with a description and tags.
AttrsArgs ==
    {[given |-> FALSE]}
    \cup {[given |-> TRUE, description |-> d, tags |-> t] :
             d \in Descriptions, t \in TagLists}

\* The is_sequence argument.
IsSequenceArgs == {"None", "True", "False"}

\* What the server answers the load query of a collection: nothing, or a
\* collection fragment.
CollectionResponses ==
    {[found |-> FALSE]}
    \cup {[found |-> TRUE, typename |-> tn, description |-> d, tags |-> t] :
             tn \in {SOURCE_ARTIFACT_COLLECTION_TYPE, LINKED_ARTIFACT_COLLECTION_TYPE},
             d \in Descriptions, t \in TagLists}

Failures ==
    {"none", "UPDATE_ARTIFACT_COLLECTION", "MOVE_ARTIFACT_COLLECTION",
     "CREATE_ARTIFACT_COLLECTION_TAG_ASSIGNMENTS",
     "DELETE_ARTIFACT_COLLECTION_TAG_ASSIGNMENTS"}

HasCollection == collection.kind = "ArtifactCollection"

\* client.execute(query, variable_values): the call is sent; it raises when
\* the server fails this query.
Execute(st, call, fail) ==
    [st EXCEPT !.calls = Append(@, call),
               !.outcome = IF fail = call.query THEN "CommError" ELSE "ok"]

\* ArtifactType.__init__: a load query unless attrs is truthy.
ArtifactTypeNeedsLoad(attrs) == attrs # "fragment"

ConstructArtifactType ==
    /\ collection = NoObject /\ artifact_type = NoObject
    /\ \E type_name \in ArtifactTypeNames, attrs \in {"None", "empty", "fragment"},
          found \in BOOLEAN :
          /\ args' = [kind |-> "ArtifactType", attrs |-> attrs]
          /\ calls' = IF ArtifactTypeNeedsLoad(attrs)
                      THEN <<[query |-> "PROJECT_ARTIFACT_TYPE",
                              artifactTypeName |-> type_name]>>
                      ELSE <<>>
          /\ outcome' = IF ArtifactTypeNeedsLoad(attrs) /\ ~found
                        THEN "ValueError" ELSE "ok"
          /\ artifact_type' = IF outcome' = "ok"
                              THEN [kind |-> "ArtifactType", type |-> type_name]
                              ELSE NoObject
    /\ op' = "ArtifactType"
    /\ UNCHANGED <<collection, codegenVars, paginatorVars>>

\* ArtifactCollection.__init__: load() when attrs or is_sequence is None.
CollectionNeedsLoad(attrs, is_sequence) ==
    (~attrs.given) \/ (is_sequence = "None")

ConstructArtifactCollection ==
    /\ collection = NoObject /\ artifact_type = NoObject
    /\ \E name \in CollectionNames, type \in ArtifactTypeNames,
          attrs \in AttrsArgs, is_sequence \in IsSequenceArgs,
          response \in CollectionResponses :
          LET load == CollectionNeedsLoad(attrs, is_sequence)
              used == IF load THEN response ELSE attrs
          IN /\ args' = [kind |-> "ArtifactCollection", attrs |-> attrs.given,
                         is_sequence |-> is_sequence]
             /\ calls' = IF load
                         THEN <<[query |-> "PROJECT_ARTIFACT_COLLECTION",
                                 artifactTypeName |-> type,
                                 artifactCollectionName |-> name]>>
                         ELSE <<>>
             /\ outcome' = IF load /\ ~response.found THEN "ValueError" ELSE "ok"
             /\ collection' =
                   IF outcome' = "ok"
                   THEN [kind |-> "ArtifactCollection",
                         name |-> name, saved_name |-> name,
                         type |-> type, saved_type |-> type,
                         is_sequence |->
                            IF load
                            THEN response.typename = SOURCE_ARTIFACT_COLLECTION_TYPE
                            ELSE is_sequence = "True",
                         description |-> used.description,
                         tags |-> used.tags, saved_tags |-> used.tags]
                   ELSE NoObject
    /\ op' = "ArtifactCollection"
    /\ UNCHANGED <<artifact_type, codegenVars, paginatorVars>>

\* The property setters.
SetDescription ==
    /\ HasCollection
    /\ \E description \in Descriptions :
          /\ collection' = [collection EXCEPT !.description = description]
          /\ args' = [kind |-> "description", value |-> description]
    /\ op' = "description.setter" /\ calls' = <<>> /\ outcome' = "ok"
    /\ UNCHANGED <<artifact_type, codegenVars, paginatorVars>>

SetTags ==
    /\ HasCollection
    /\ \E tags \in TagLists :
          /\ collection' = [collection EXCEPT !.tags = tags]
          /\ args' = [kind |-> "tags", value |-> tags]
    /\ op' = "tags.setter" /\ calls' = <<>> /\ outcome' = "ok"
    /\ UNCHANGED <<artifact_type, codegenVars, paginatorVars>>

\* A name setter that writes the saved name as well.
set_name_saved_too(c, name) == [c EXCEPT !.name = name, !.saved_name = name]

\* self._name = validate_artifact_name(name)
set_name(c, name) == [c EXCEPT !.name = name]

SetName ==
    /\ HasCollection
    /\ \E name \in CollectionNames :
          /\ collection' = set_name(collection, name)
          /\ args' = [kind |-> "name", value |-> name]
    /\ op' = "name.setter" /\ calls' = <<>> /\ outcome' = "ok"
    /\ UNCHANGED <<artifact_type, codegenVars, paginatorVars>>

\* A type setter without the check for a sequence.
set_type_unchecked(c, type) == [c EXCEPT !.type = type]

\* The type setter: self._type = type unless it raised.
set_type(c, type) == IF c.is_sequence THEN [c EXCEPT !.type = type] ELSE c

SetType ==
    /\ HasCollection
    /\ \E type \in ArtifactTypeNames :
          /\ collection' = set_type(collection, type)
          /\ args' = [kind |-> "type", value |-> type]
    /\ outcome' = IF collection.is_sequence THEN "ok" ELSE "ValueError"
    /\ op' = "type.setter" /\ calls' = <<>>
    /\ UNCHANGED <<artifact_type, codegenVars, paginatorVars>>

----------------------------------------------------------------------------
(* ArtifactCollection.save *)

UpdateCall(c) ==
    [query |-> "UPDATE_ARTIFACT_COLLECTION", name |-> c.name,
     description |-> c.description, isSequence |-> c.is_sequence]

MoveCall(c) ==
    [query |-> "MOVE_ARTIFACT_COLLECTION", destinationArtifactTypeName |-> c.type]

AddTagsCall(c, tag_names) ==
    [query |-> "CREATE_ARTIFACT_COLLECTION_TAG_ASSIGNMENTS",
     artifactCollectionName |-> c.saved_name, tags |-> tag_names]

DeleteTagsCall(c, tag_names) ==
    [query |-> "DELETE_ARTIFACT_COLLECTION_TAG_ASSIGNMENTS",
     artifactCollectionName |-> c.saved_name, tags |-> tag_names]

\* _update_collection without the assignment to the saved name.
update_collection_saved_name_kept(st, fail) == Execute(st, UpdateCall(st.c), fail)

\* _update_collection
update_collection(st, fail) ==
    LET sent == Execute(st, UpdateCall(st.c), fail) IN
    IF sent.outcome = "ok" THEN [sent EXCEPT !.c.saved_name = st.c.name] ELSE sent

\* _update_collection_type
update_collection_type(st, fail) ==
    LET sent == Execute(st, MoveCall(st.c), fail) IN
    IF sent.outcome = "ok" THEN [sent EXCEPT !.c.saved_type = st.c.type] ELSE sent

\* The move-type call sent for every sequence, changed type or not.
MoveNeededForEverySequence(c, saved_type, new_type) == c.is_sequence

\* if self.is_sequence() and (saved_type != new_type)
MoveNeeded(c, saved_type, new_type) == c.is_sequence /\ saved_type # new_type

\* The difference taken the wrong way round.
tags_to_add_swapped(c) == ToSet(c.saved_tags) \ ToSet(c.tags)

\* tags_to_add := current_tags - saved_tags
tags_to_add(c) == ToSet(c.tags) \ ToSet(c.saved_tags)

\* tags_to_delete := saved_tags - current_tags
tags_to_delete(c) == ToSet(c.saved_tags) \ ToSet(c.tags)

\* The snapshot of the tags left as it was.
SnapshotTagsSkipped(c) == c

\* self._saved_tags = copy(self._tags)
SnapshotTags(c) == [c EXCEPT !.saved_tags = c.tags]

\* The validation with the check of the saved type left out.
TypeValidationFailsNewOnly(saved_type, new_type) ==
    saved_type # new_type /\ validate_artifact_type_raises(new_type)

\* The head of save(): when the type was changed, validate_artifact_type of
\* the new type, then of the saved type; either failure is raised on as
\* ValueError.
TypeValidationFails(saved_type, new_type) ==
    /\ saved_type # new_type
    /\ \/ validate_artifact_type_raises(new_type)
       \/ validate_artifact_type_raises(saved_type)

\* save(): the collection, the calls sent and the outcome, when the server
\* fails the query named fail ("none": no query fails).
save(c, fail) ==
    LET saved_type == c.saved_type
        new_type == c.type
        s0 == [c |-> c, calls |-> <<>>, outcome |-> "ok"]
    IN IF TypeValidationFails(saved_type, new_type)
       THEN [s0 EXCEPT !.outcome = "ValueError"]
       ELSE
       LET s1 == update_collection(s0, fail)
           s2 == IF s1.outcome = "ok" /\ MoveNeeded(s1.c, saved_type, new_type)
                 THEN update_collection_type(s1, fail) ELSE s1
           s3 == IF s2.outcome = "ok" /\ tags_to_add(s2.c) # {}
                 THEN Execute(s2, AddTagsCall(s2.c, tags_to_add(s2.c)), fail)
                 ELSE s2
           s4 == IF s3.outcome = "ok" /\ tags_to_delete(s3.c) # {}
                 THEN Execute(s3, DeleteTagsCall(s3.c, tags_to_delete(s3.c)), fail)
                 ELSE s3
       IN IF s4.outcome = "ok" THEN [s4 EXCEPT !.c = SnapshotTags(s4.c)] ELSE s4

\* args keeps the saved name the collection had when save() was called.
Save ==
    /\ HasCollection
    /\ \E fail \in Failures :
          LET r == save(collection, fail) IN
          /\ collection' = r.c
          /\ calls' = r.calls
          /\ outcome' = r.outcome
    /\ op' = "save"
    /\ args' = [kind |-> "save", saved_name |-> collection.saved_name]
    /\ UNCHANGED <<artifact_type, codegenVars, paginatorVars>>

----------------------------------------------------------------------------
(* ArtifactCollection.change_type (deprecated) *)

\* change_type(new_type): the collection, the calls sent and the outcome.
change_type(c, new_type, fail) ==
    LET saved_type == c.saved_type
        s0 == [c |-> c, calls |-> <<>>, outcome |-> "ok"]
    IN IF saved_type # new_type /\ validate_artifact_type_raises(saved_type)
       THEN [s0 EXCEPT !.outcome = "ValueError"]
       ELSE IF validate_artifact_type_raises(new_type)
       THEN [s0 EXCEPT !.outcome = "ValueError"]
       ELSE IF ~c.is_sequence
       THEN [s0 EXCEPT !.outcome = "ValueError"]
       ELSE LET sent == Execute(s0, [query |-> "MOVE_ARTIFACT_COLLECTION",
                                     destinationArtifactTypeName |-> new_type],
                                fail)
            IN IF sent.outcome = "ok"
               THEN [sent EXCEPT !.c.saved_type = new_type, !.c.type = new_type]
               ELSE sent

ChangeType ==
    /\ HasCollection
    /\ \E new_type \in ArtifactTypeNames, fail \in Failures :
          LET r == change_type(collection, new_type, fail) IN
          /\ collection' = r.c
          /\ calls' = r.calls
          /\ outcome' = r.outcome
          /\ args' = [kind |-> "change_type", value |-> new_type]
    /\ op' = "change_type"
    /\ UNCHANGED <<artifact_type, codegenVars, paginatorVars>>

InitArtifacts ==
    /\ module = <<>>
    /\ CodegenIdle
    /\ ArtifactsIdle

NextArtifacts ==
    \/ ConstructArtifactType
    \/ ConstructArtifactCollection
    \/ SetDescription
    \/ SetTags
    \/ SetName
    \/ SetType
    \/ Save
    \/ ChangeType

SpecArtifacts == InitArtifacts /\ [][NextArtifacts]_vars

----------------------------------------------------------------------------
(* Properties of ArtifactCollection.save and of the constructors *)

CallsOf(cs, query) == SelectSeq(cs, LAMBDA call : call.query = query)

SaveRan == op = "save" /\ HasCollection

\* C7: a save() that returns sends an add-tags call carrying exactly the
\* current tags minus the saved tags and a delete-tags call carrying exactly
\* the saved tags minus the current tags, and sends neither call when its
\* set is empty.
C7_TagDiffIsSymmetricDifference ==
    [][(op' = "save" /\ outcome' = "ok" /\ HasCollection) =>
          LET current_tags == ToSet(collection.tags)
              saved_tags == ToSet(collection.saved_tags)
              added == CallsOf(calls', "CREATE_ARTIFACT_COLLECTION_TAG_ASSIGNMENTS")
              deleted == CallsOf(calls', "DELETE_ARTIFACT_COLLECTION_TAG_ASSIGNMENTS")
          IN /\ Len(added) = IF current_tags \ saved_tags = {} THEN 0 ELSE 1
             /\ \A i \in 1..Len(added) : added[i].tags = current_tags \ saved_tags
             /\ Len(deleted) = IF saved_tags \ current_tags = {} THEN 0 ELSE 1
             /\ \A i \in 1..Len(deleted) : deleted[i].tags = saved_tags \ current_tags
      ]_vars

\* C7 witness: saved tags {a,b}, current tags {b,c}: save() sent add {c} and
\* delete {a}.
C7_Witness ==
    /\ SaveRan /\ outcome = "ok"
    /\ collection.tags = <<"b", "c">>
    /\ \E i, j \in 1..Len(calls) :
          /\ calls[i].query = "CREATE_ARTIFACT_COLLECTION_TAG_ASSIGNMENTS"
          /\ calls[i].tags = {"c"}
          /\ calls[j].query = "DELETE_ARTIFACT_COLLECTION_TAG_ASSIGNMENTS"
          /\ calls[j].tags = {"a"}

\* C8: after a save() that returned, saved name = name, saved type = type
\* and saved tags = tags, and a save() issued next sends no add-tags,
\* delete-tags or move-type call, whatever the server does.
C8_SnapshotEqualsStaged ==
    (SaveRan /\ outcome = "ok") =>
        /\ collection.saved_name = collection.name
        /\ collection.saved_type = collection.type
        /\ collection.saved_tags = collection.tags
        /\ \A fail \in Failures :
              \A i \in 1..Len(save(collection, fail).calls) :
                  save(collection, fail).calls[i].query = "UPDATE_ARTIFACT_COLLECTION"

\* C8 witness: a save() that renamed the collection, moved its type and
\* added and deleted tags has returned.
C8_Witness ==
    /\ SaveRan /\ outcome = "ok"
    /\ Len(calls) = 4
    /\ calls[1].name = "n2"

\* Nothing is staged right after a construction or a save() that returned.
NothingStaged ==
    /\ op \in {"ArtifactCollection", "save"}
    /\ outcome = "ok"
    /\ HasCollection

\* C9 (as claimed): save() sends a call only when the staged field it
\* carries differs from the saved snapshot, and no call at all when nothing
\* is staged.
C9_OnlyNecessaryCalls ==
    [][(op' = "save" /\ HasCollection) =>
          /\ NothingStaged => calls' = <<>>
          /\ CallsOf(calls', "MOVE_ARTIFACT_COLLECTION") # <<>>
                => collection.type # collection.saved_type
          /\ CallsOf(calls', "CREATE_ARTIFACT_COLLECTION_TAG_ASSIGNMENTS") # <<>>
                => ToSet(collection.tags) # ToSet(collection.saved_tags)
          /\ CallsOf(calls', "DELETE_ARTIFACT_COLLECTION_TAG_ASSIGNMENTS") # <<>>
                => ToSet(collection.tags) # ToSet(collection.saved_tags)
      ]_vars

\* C9 (amended): unless the type validation fails, save() always sends the
\* update call first, whether or not name or description changed; the
\* move-type call is sent only when the staged type differs from the saved
\* type, the add-tags and delete-tags calls only when the tags differ; a
\* save() with nothing staged sends exactly one call, the update.
C9_UpdateAlwaysOthersWhenChanged ==
    [][(op' = "save" /\ HasCollection) =>
          /\ outcome' = "ValueError" => calls' = <<>>
          /\ outcome' # "ValueError" =>
                /\ calls' # <<>>
                /\ calls'[1] = [query |-> "UPDATE_ARTIFACT_COLLECTION",
                                name |-> collection.name,
                                description |-> collection.description,
                                isSequence |-> collection.is_sequence]
                /\ Len(CallsOf(calls', "UPDATE_ARTIFACT_COLLECTION")) = 1
          /\ CallsOf(calls', "MOVE_ARTIFACT_COLLECTION") # <<>>
                => collection.type # collection.saved_type
          /\ CallsOf(calls', "CREATE_ARTIFACT_COLLECTION_TAG_ASSIGNMENTS") # <<>>
                => ToSet(collection.tags) # ToSet(collection.saved_tags)
          /\ CallsOf(calls', "DELETE_ARTIFACT_COLLECTION_TAG_ASSIGNMENTS") # <<>>
                => ToSet(collection.tags) # ToSet(collection.saved_tags)
          /\ NothingStaged => Len(calls') = 1
      ]_vars

\* C9 witness: a save() of a sequence whose type was not changed sent the
\* update call alone.
C9_Witness ==
    /\ SaveRan /\ outcome = "ok"
    /\ collection.is_sequence
    /\ Len(calls) = 1
    /\ calls[1].query = "UPDATE_ARTIFACT_COLLECTION"

\* The saved snapshot of a collection.
SavedSnapshot(c) == <<c.saved_name, c.saved_type, c.saved_tags>>

Setters == {"description.setter", "tags.setter", "name.setter", "type.setter"}

\* The field a setter writes.
SetterField ==
    [s \in Setters |->
        CASE s = "description.setter" -> "description"
          [] s = "tags.setter" -> "tags"
          [] s = "name.setter" -> "name"
          [] s = "type.setter" -> "type"]

\* C11: a setter of description, tags, name or type sends no network call
\* and writes the staged field alone (nothing at all when it raises), so the
\* saved name, saved type and saved tags keep their values; on an existing
\* collection only save() and change_type() send calls or change the saved
\* snapshot.
C11_SettersOnlyStage ==
    [][/\ (op' \in Setters) =>
             /\ calls' = <<>>
             /\ SavedSnapshot(collection') = SavedSnapshot(collection)
             /\ collection' =
                   IF outcome' = "ok"
                   THEN [collection EXCEPT ![SetterField[op']] = args'.value]
                   ELSE collection
       /\ (HasCollection /\ (calls' # <<>> \/ SavedSnapshot(collection')
                                                # SavedSnapshot(collection)))
             => op' \in {"save", "change_type"}
      ]_vars

\* C11 witness: after setters ran, name, type and tags are all staged with
\* values that differ from the saved snapshot.
C11_Witness ==
    /\ op \in Setters /\ HasCollection
    /\ collection.name # collection.saved_name
    /\ collection.type # collection.saved_type
    /\ collection.tags # collection.saved_tags

\* C10 (as claimed): a constructor given a pre-fetched attribute fragment
\* sends no query; a load query is sent only when no attrs are given.
C10_NoQueryWhenAttrsGiven ==
    /\ (op = "ArtifactType" /\ args.attrs = "fragment") => calls = <<>>
    /\ (op = "ArtifactCollection" /\ args.attrs) => calls = <<>>

----------------------------------------------------------------------------
(* Properties of a save() that raises, of the order of its calls, and of    *)
(* collections that are no sequences                                        *)

\* The three fields of the saved snapshot.
Snapshot(c) == <<c.saved_name, c.saved_type, c.saved_tags>>

\* A step that is a call of save() on the collection.
SaveStep == HasCollection /\ op' = "save"

Succeeded(cs, result) ==
    IF result = "CommError" THEN SubSeq(cs, 1, Len(cs) - 1) ELSE cs

\* C27 (as claimed): if save() raises at any step, the saved name, saved
\* type and saved tags are the same as before the call.
C27_SnapshotUnchangedIfSaveRaises ==
    [][(SaveStep /\ outcome' # "ok")
          => Snapshot(collection') = Snapshot(collection)]_vars

\* C27 (amended): if save() raises, the saved tags are as before the call,
\* the saved name is the staged name if the update call was answered and is
\* as before otherwise, and the saved type is the staged type if a move-type
\* call was answered and is as before otherwise; the staged fields are
\* untouched.
C27_SnapshotFollowsAnsweredCalls ==
    [][(SaveStep /\ outcome' # "ok")
          => LET answered == Succeeded(calls', outcome')
                 updated == CallsOf(answered, "UPDATE_ARTIFACT_COLLECTION") # <<>>
                 moved == CallsOf(answered, "MOVE_ARTIFACT_COLLECTION") # <<>>
             IN /\ collection'.saved_tags = collection.saved_tags
                /\ collection'.saved_name =
                      IF updated THEN collection.name ELSE collection.saved_name
                /\ collection'.saved_type =
                      IF moved THEN collection.type ELSE collection.saved_type
                /\ collection'.name = collection.name
                /\ collection'.type = collection.type
                /\ collection'.tags = collection.tags
                /\ collection'.description = collection.description]_vars

\* C27 witness: a save() that renamed the collection and moved its type
\* raised out of the delete-tags call: the saved name and the saved type are
\* the new ones, the saved tags the old ones.
C27_Witness ==
    /\ SaveRan /\ outcome = "CommError"
    /\ Len(calls) = 4
    /\ calls[4].query = "DELETE_ARTIFACT_COLLECTION_TAG_ASSIGNMENTS"
    /\ args.saved_name # collection.saved_name
    /\ collection.saved_name = collection.name
    /\ collection.saved_type = collection.type
    /\ collection.saved_tags # collection.tags

\* The place of a query in the order of save().
QueryRank(query) ==
    CASE query = "UPDATE_ARTIFACT_COLLECTION" -> 1
      [] query = "MOVE_ARTIFACT_COLLECTION" -> 2
      [] query = "CREATE_ARTIFACT_COLLECTION_TAG_ASSIGNMENTS" -> 3
      [] query = "DELETE_ARTIFACT_COLLECTION_TAG_ASSIGNMENTS" -> 4

IsTagCall(call) ==
    call.query \in {"CREATE_ARTIFACT_COLLECTION_TAG_ASSIGNMENTS",
                    "DELETE_ARTIFACT_COLLECTION_TAG_ASSIGNMENTS"}

\* C28: the calls of a save() come in the order update, move-type,
\* add-tags, delete-tags, each at most once and the update call first; the
\* tag calls address the collection by its staged (new) name, also when the
\* save() renames it.
C28_CallOrderAndNewName ==
    [][SaveStep =>
          /\ \A i, j \in 1..Len(calls') :
                i < j => QueryRank(calls'[i].query) < QueryRank(calls'[j].query)
          /\ calls' # <<>> => calls'[1].query = "UPDATE_ARTIFACT_COLLECTION"
          /\ \A i \in 1..Len(calls') :
                IsTagCall(calls'[i]) =>
                    calls'[i].artifactCollectionName = collection.name]_vars

\* C28 witness: a save() of a collection saved as n1 and renamed n2 sent the
\* four calls, and both tag calls name n2.
C28_Witness ==
    /\ SaveRan /\ outcome = "ok"
    /\ args.saved_name = "n1" /\ collection.name = "n2"
    /\ Len(calls) = 4
    /\ calls[3].artifactCollectionName = "n2"
    /\ calls[4].artifactCollectionName = "n2"

NotSequence == HasCollection /\ ~collection.is_sequence

----------------------------------------------------------------------------
(* The paginators: ArtifactTypes, ArtifactCollections, Artifacts,           *)
(* RunArtifacts and ArtifactFiles                                          *)

MaxEdges == 2      \* edges of one page of a response
MaxCount == 2      \* the total count a response reports; an artifact's file count
MaxObjects == 3    \* converted objects a paginator holds; its index

PaginatorKinds ==
    {"ArtifactTypes", "ArtifactCollections", "Artifacts", "RunArtifacts",
     "ArtifactFiles"}

\* The subclasses of SizedPaginator.
SizedKinds == PaginatorKinds \ {"ArtifactTypes"}

\* per_page: int = 50
DEFAULT_PER_PAGE == 50

\* The per_page arguments in use.
PerPages == {10, DEFAULT_PER_PAGE}

\* The end cursors a server reports.
Cursors == {"c1", "c2"}

\* last_response = None
NoResponse == [loaded |-> FALSE]

\* The server was not asked.
NoAnswer == [missing |-> "unasked"]

\* The connection fragments with a total_count field.
HasTotalCount(kind) == kind \in {"ArtifactCollections", "Artifacts", "RunArtifacts"}

\* The levels of a response that may be missing (None), outermost first.
Levels(p) ==
    CASE p.kind = "ArtifactTypes" -> <<"project", "connection">>
      [] p.kind = "ArtifactCollections" -> <<"project", "type", "connection">>
      [] p.kind = "Artifacts" -> <<"project", "type", "collection", "connection">>
      [] p.kind = "RunArtifacts" -> <<"project", "run", "connection">>
      [] p.kind = "ArtifactFiles" ->
            IF p.query_via_membership
            THEN <<"project", "collection", "membership", "connection">>
            ELSE <<"project", "type", "artifact", "connection">>

\* What a server may answer a page query of paginator p: a response with a
\* level missing, or a whole one with its page info, total count (where the
\* fragment has one) and number of edges that carry a node.
Answers(p) ==
    {[missing |-> m] : m \in Range(Levels(p))}
    \cup (IF HasTotalCount(p.kind)
          THEN {[missing |-> "none", has_next_page |-> h, end_cursor |-> c,
                 total_count |-> t, edges |-> e] :
                   h \in BOOLEAN, c \in Cursors, t \in 1..MaxCount, e \in 0..MaxEdges}
          ELSE {[missing |-> "none", has_next_page |-> h, end_cursor |-> c,
                 edges |-> e] :
                   h \in BOOLEAN, c \in Cursors, e \in 0..MaxEdges})

\* The connection fragment validated from a whole answer.
Fragment(p, answer) ==
    IF HasTotalCount(p.kind)
    THEN [loaded |-> TRUE, has_next_page |-> answer.has_next_page,
          end_cursor |-> answer.end_cursor, total_count |-> answer.total_count,
          edges |-> answer.edges]
    ELSE [loaded |-> TRUE, has_next_page |-> answer.has_next_page,
          end_cursor |-> answer.end_cursor, edges |-> answer.edges]

\* A variant of more that reads the flag the wrong way round.
more_inverted(p) ==
    IF p.last_response = NoResponse THEN TRUE
    ELSE ~p.last_response.has_next_page

\* A variant of more that reports the flag of a cached response as True.
more_always(p) == TRUE

\* more
more(p) ==
    IF p.last_response = NoResponse THEN TRUE
    ELSE p.last_response.has_next_page

\* cursor
cursor(p) ==
    IF p.last_response = NoResponse THEN "None"
    ELSE p.last_response.end_cursor

----------------------------------------------------------------------------
(* The constructors of the paginators *)

\* dict.update(other)
DictUpdate(d, other) ==
    [k \in DOMAIN d \cup DOMAIN other |-> IF k \in DOMAIN other THEN other[k] ELSE d[k]]

\* One dict object that every constructor reuses.
NewDictShared(heap) == 1

\* variable_values = {...}: a dict object of its own for every construction.
NewDict(heap) == Len(heap) + 1

\* The heap after dict d is written at reference ref.
Store(heap, ref, d) ==
    IF ref > Len(heap) THEN Append(heap, d) ELSE [heap EXCEPT ![ref] = d]

\* Paginator.__init__: no page fetched, no object converted yet.
PaginatorInit(kind, per_page) ==
    [kind |-> kind, per_page |-> per_page, variables |-> 0,
     last_response |-> NoResponse, nobjects |-> 0, index |-> -1]

\* A constructor builds paginator p in slot i with the query variables d.
Construct(i, name, p, d, per_page) ==
    /\ paginators[i] = NoObject
    /\ dicts' = Store(dicts, NewDict(dicts), d)
    /\ paginators' = [paginators EXCEPT ![i] = [p EXCEPT !.variables = NewDict(dicts)]]
    /\ args' = [kind |-> name, p |-> i, per_page |-> per_page, answer |-> NoAnswer]
    /\ op' = name
    /\ calls' = <<>>
    /\ outcome' = "ok"
    /\ length' = NoLength
    /\ UNCHANGED <<collection, artifact_type, codegenVars>>

\* ArtifactTypes(client, entity, project, per_page)
ArtifactTypes(per_page) ==
    PaginatorInit("ArtifactTypes", per_page)
    @@ [QUERY |-> "PROJECT_ARTIFACT_TYPES"]

ConstructArtifactTypes ==
    \E i \in DOMAIN paginators, per_page \in PerPages :
        Construct(i, "ArtifactTypes", ArtifactTypes(per_page),
                  [entityName |-> "e", projectName |-> "p"], per_page)

\* ArtifactCollections(client, entity, project, type_name, per_page)
ArtifactCollections(type_name, per_page) ==
    PaginatorInit("ArtifactCollections", per_page)
    @@ [QUERY |-> "PROJECT_ARTIFACT_COLLECTIONS", type_name |-> type_name]

ArtifactCollectionsVariables(type_name) ==
    [entityName |-> "e", projectName |-> "p", artifactTypeName |-> type_name]

ConstructArtifactCollections ==
    \E i \in DOMAIN paginators, per_page \in PerPages, type_name \in {"model"} :
        Construct(i, "ArtifactCollections",
                  ArtifactCollections(type_name, per_page),
                  ArtifactCollectionsVariables(type_name), per_page)

\* ArtifactType.collections(per_page):
\* return ArtifactCollections(self.client, self.entity, self.project, self.type)
collections(t, per_page) == ArtifactCollections(t.type, DEFAULT_PER_PAGE)

Collections ==
    /\ artifact_type # NoObject
    /\ \E i \in DOMAIN paginators, per_page \in PerPages :
          Construct(i, "ArtifactType.collections",
                    collections(artifact_type, per_page),
                    ArtifactCollectionsVariables(artifact_type.type), per_page)

\* Artifacts(client, entity, project, collection_name, type, per_page=per_page)
Artifacts(collection_name, type, per_page) ==
    PaginatorInit("Artifacts", per_page)
    @@ [QUERY |-> "PROJECT_ARTIFACTS", collection_name |-> collection_name]

\* ArtifactCollection.artifacts(per_page)
artifacts(c, per_page) == Artifacts(c.saved_name, c.saved_type, per_page)

ArtifactsOfCollection ==
    /\ HasCollection
    /\ \E i \in DOMAIN paginators, per_page \in PerPages :
          Construct(i, "ArtifactCollection.artifacts",
                    artifacts(collection, per_page),
                    [project |-> "p", entity |-> "e", order |-> "None",
                     type |-> collection.saved_type,
                     collection |-> collection.saved_name,
                     filters |-> "{\"state\": \"COMMITTED\"}"],
                    per_page)

\* RunArtifacts(client, run, mode, per_page)
RunArtifacts(mode, per_page) ==
    PaginatorInit("RunArtifacts", per_page)
    @@ [QUERY |-> IF mode = "logged" THEN "RUN_OUTPUT_ARTIFACTS"
                  ELSE "RUN_INPUT_ARTIFACTS",
        run_key |-> IF mode = "logged" THEN "outputArtifacts" ELSE "inputArtifacts"]

ConstructRunArtifacts ==
    \E i \in DOMAIN paginators, per_page \in PerPages,
       mode \in {"logged", "used", "other"} :
        IF mode \in {"logged", "used"}
        THEN Construct(i, "RunArtifacts", RunArtifacts(mode, per_page),
                       [entity |-> "e", project |-> "p", runName |-> "r"],
                       per_page)
        ELSE /\ paginators[i] = NoObject
             /\ args' = [kind |-> "RunArtifacts", p |-> i, per_page |-> per_page,
                         answer |-> NoAnswer]
             /\ op' = "RunArtifacts"
             /\ calls' = <<>>
             /\ outcome' = "ValueError"
             /\ length' = NoLength
             /\ UNCHANGED <<paginators, dicts, collection, artifact_type,
                            codegenVars>>

\* ArtifactFiles(client, artifact, names, per_page); file_count is
\* artifact.file_count.
ArtifactFiles(query_via_membership, file_count, per_page) ==
    PaginatorInit("ArtifactFiles", per_page)
    @@ [QUERY |-> IF query_via_membership
                  THEN "ARTIFACT_COLLECTION_MEMBERSHIP_FILES"
                  ELSE "ARTIFACT_VERSION_FILES",
        query_via_membership |-> query_via_membership,
        file_count |-> file_count]

ConstructArtifactFiles ==
    \E i \in DOMAIN paginators, per_page \in PerPages,
       query_via_membership \in BOOLEAN, file_count \in {MaxCount} :
        Construct(i, "ArtifactFiles",
                  ArtifactFiles(query_via_membership, file_count, per_page),
                  IF query_via_membership
                  THEN [entityName |-> "e", projectName |-> "p",
                        artifactName |-> "a", artifactVersionIndex |-> "v0",
                        fileNames |-> "None"]
                  ELSE [entityName |-> "e", projectName |-> "p",
                        artifactName |-> "a", artifactTypeName |-> "model",
                        fileNames |-> "None"],
                  per_page)

----------------------------------------------------------------------------
(* The operations of a paginator.  An operation works on a record w of the  *)
(* paginators (ps), the heap of dicts (ds), the calls sent so far, the      *)
(* outcome, the number of objects the last conversion built, whether the   *)
(* last page load loaded a page, and the length returned.                  *)

World ==
    [ps |-> paginators, ds |-> dicts, calls |-> <<>>, outcome |-> "ok",
     converted |-> 0, loaded |-> FALSE, length |-> NoLength]

\* Paginator.update_variables: perPage and cursor.
BasePageVariables(p) == [perPage |-> p.per_page, cursor |-> cursor(p)]

\* An update of the variables that leaves the cursor out.
PageVariablesNoCursor(p) == [perPage |-> p.per_page]

\* The argument of self.variables.update(...) in update_variables: the
\* overrides of ArtifactTypes, ArtifactCollections and ArtifactFiles, the
\* inherited method for Artifacts and RunArtifacts.
PageVariables(p) ==
    CASE p.kind \in {"ArtifactTypes", "ArtifactCollections"} -> [cursor |-> cursor(p)]
      [] p.kind = "ArtifactFiles" ->
            [fileLimit |-> p.per_page, fileCursor |-> cursor(p)]
      [] OTHER -> BasePageVariables(p)

\* update_variables
update_variables(w, i) ==
    [w EXCEPT !.ds[w.ps[i].variables] = DictUpdate(@, PageVariables(w.ps[i]))]

\* What _update_response raises on an answer ("ok": nothing).
ResponseError(p, answer) ==
    IF answer.missing = "none" THEN "ok"
    ELSE CASE p.kind \in {"ArtifactTypes", "ArtifactCollections", "Artifacts"} ->
                 "ValueError"
           [] p.kind = "RunArtifacts" ->
                 IF answer.missing = "connection" THEN "ValidationError"
                 ELSE "TypeError"
           [] p.kind = "ArtifactFiles" ->
                 IF answer.missing = "connection" THEN "ValueError"
                 ELSE "AttributeError"

\* An _update_response that also advances the cursor variable to the end
\* cursor it just cached.
update_response_advancing(w, i, answer) ==
    LET p == w.ps[i]
        sent == [w EXCEPT !.calls = Append(@, [query |-> p.QUERY,
                                               variables |-> w.ds[p.variables]])]
        error == ResponseError(p, answer)
    IN IF error # "ok"
       THEN [sent EXCEPT !.outcome = error]
       ELSE [sent EXCEPT !.ps[i].last_response = Fragment(p, answer),
                         !.ds[p.variables] =
                             DictUpdate(@, [cursor |-> answer.end_cursor])]

\* An _update_response that caches before it validates: a response with a
\* level missing wipes the cached one.
update_response_cache_first(w, i, answer) ==
    LET p == w.ps[i]
        sent == [w EXCEPT !.calls = Append(@, [query |-> p.QUERY,
                                               variables |-> w.ds[p.variables]])]
        error == ResponseError(p, answer)
    IN IF error # "ok"
       THEN [sent EXCEPT !.outcome = error, !.ps[i].last_response = NoResponse]
       ELSE [sent EXCEPT !.ps[i].last_response = Fragment(p, answer)]

\* _update_response: one query with the current variables; the connection
\* is cached unless a level is missing.
update_response(w, i, answer) ==
    LET p == w.ps[i]
        sent == [w EXCEPT !.calls = Append(@, [query |-> p.QUERY,
                                               variables |-> w.ds[p.variables]])]
        error == ResponseError(p, answer)
    IN IF error # "ok"
       THEN [sent EXCEPT !.outcome = error]
       ELSE [sent EXCEPT !.ps[i].last_response = Fragment(p, answer)]

\* The load query ArtifactCollection.__init__ sends for the k-th node of a
\* page when it is given no attrs.
NodeLoadCall(p, k) ==
    [query |-> "PROJECT_ARTIFACT_COLLECTION", artifactTypeName |-> p.type_name,
     node |-> k]

\* convert_objects: one object per edge with a node.  ArtifactCollections
\* builds each ArtifactCollection without attrs, so each one loads itself;
\* nfound of these loads find their collection, the next one raises.
convert_objects(w, i, nfound) ==
    LET p == w.ps[i] IN
    IF p.last_response = NoResponse THEN [w EXCEPT !.converted = 0]
    ELSE LET edges == p.last_response.edges IN
         IF p.kind = "ArtifactCollections"
         THEN LET nloads == IF nfound < edges THEN nfound + 1 ELSE edges IN
              [w EXCEPT !.calls = @ \o [k \in 1..nloads |-> NodeLoadCall(p, k)],
                        !.outcome = IF nfound < edges THEN "ValueError" ELSE "ok",
                        !.converted = IF nfound < edges THEN 0 ELSE edges]
         ELSE [w EXCEPT !.converted = edges]

\* Paginator._load_page: nothing when no page is left; else bind the
\* cursor, fetch, convert, and extend the objects.
load_page(w, i, answer, nfound) ==
    IF ~more(w.ps[i]) THEN [w EXCEPT !.loaded = FALSE]
    ELSE LET bound == update_variables(w, i)
             fetched == update_response(bound, i, answer)
             converted == IF fetched.outcome = "ok"
                          THEN convert_objects(fetched, i, nfound)
                          ELSE fetched
         IN IF converted.outcome = "ok"
            THEN [converted EXCEPT !.ps[i].nobjects = @ + converted.converted,
                                   !.loaded = TRUE]
            ELSE converted

\* A _length that loads a page on every access.
length_always_loads(w, i, answer, nfound) ==
    LET p == w.ps[i] IN
    IF p.kind = "ArtifactTypes" THEN w
    ELSE LET w1 == load_page(w, i, answer, nfound) IN
         IF w1.outcome # "ok" THEN w1
         ELSE [w1 EXCEPT !.length = IF p.kind = "ArtifactFiles" THEN p.file_count
                                     ELSE w1.ps[i].last_response.total_count]

\* _length: None for ArtifactTypes; for the sized paginators a page is
\* loaded when none is cached, then the total count of the cached response
\* (the artifact's file count for ArtifactFiles) is returned.
length_of(w, i, answer, nfound) ==
    LET p == w.ps[i] IN
    IF p.kind = "ArtifactTypes" THEN w
    ELSE LET w1 == IF p.last_response = NoResponse
                   THEN load_page(w, i, answer, nfound)
                   ELSE w
         IN IF w1.outcome # "ok" THEN w1
            ELSE [w1 EXCEPT !.length = IF p.kind = "ArtifactFiles" THEN p.file_count
                                        ELSE w1.ps[i].last_response.total_count]

\* Paginator.__next__: advance the index; load a page when the objects run
\* out; StopIteration when no page was loaded or it brought no object.
next(w, i, answer, nfound) ==
    LET w0 == [w EXCEPT !.ps[i].index = @ + 1] IN
    IF w0.ps[i].nobjects > w0.ps[i].index THEN w0
    ELSE LET w1 == load_page(w0, i, answer, nfound) IN
         IF w1.outcome # "ok" THEN w1
         ELSE IF ~w1.loaded \/ w1.ps[i].nobjects <= w1.ps[i].index
         THEN [w1 EXCEPT !.outcome = "StopIteration"]
         ELSE w1

----------------------------------------------------------------------------
(* The operations as actions *)

HasPaginator(i) == i \in DOMAIN paginators /\ paginators[i] # NoObject

\* The answers that keep the objects of paginator p within MaxObjects.
FittingAnswers(p) ==
    {a \in Answers(p) : a.missing = "none" => p.nobjects + a.edges <= MaxObjects}

\* How many of the loads of a conversion may succeed.
Found(p, edges) == IF p.kind = "ArtifactCollections" THEN 0..edges ELSE {edges}

\* Operation name on paginator i took the world to w; answer is what the
\* server answered its page query.
Apply(i, name, w, answer) ==
    /\ paginators' = w.ps
    /\ dicts' = w.ds
    /\ calls' = w.calls
    /\ outcome' = w.outcome
    /\ length' = w.length
    /\ op' = name
    /\ args' = [kind |-> name, p |-> i, answer |-> answer]
    /\ UNCHANGED <<collection, artifact_type, codegenVars>>

UpdateVariablesOn(i) ==
    /\ HasPaginator(i)
    /\ Apply(i, "update_variables", update_variables(World, i), NoAnswer)

UpdateVariables == \E i \in DOMAIN paginators : UpdateVariablesOn(i)

UpdateResponseOn(i) ==
    /\ HasPaginator(i)
    /\ \E answer \in Answers(paginators[i]) :
          Apply(i, "_update_response", update_response(World, i, answer), answer)

UpdateResponse == \E i \in DOMAIN paginators : UpdateResponseOn(i)

ConvertObjectsOn(i) ==
    /\ HasPaginator(i)
    /\ paginators[i].last_response # NoResponse
    /\ \E nfound \in Found(paginators[i], paginators[i].last_response.edges) :
          Apply(i, "convert_objects", convert_objects(World, i, nfound), NoAnswer)

ConvertObjects == \E i \in DOMAIN paginators : ConvertObjectsOn(i)

\* An answer with the project missing: what an operation does with it tells
\* whether the operation asks the server at all.
NoProject == [missing |-> "project"]

LengthOn(i) ==
    /\ HasPaginator(i)
    /\ IF length_of(World, i, NoProject, 0).calls = <<>>
       THEN Apply(i, "_length", length_of(World, i, NoProject, 0), NoAnswer)
       ELSE \E answer \in FittingAnswers(paginators[i]) :
            \E nfound \in Found(paginators[i],
                                IF answer.missing = "none" THEN answer.edges ELSE 0) :
               Apply(i, "_length", length_of(World, i, answer, nfound), answer)

Length == \E i \in DOMAIN paginators : LengthOn(i)

NextObjectOn(i) ==
    /\ HasPaginator(i)
    /\ paginators[i].index < MaxObjects
    /\ IF next(World, i, NoProject, 0).calls = <<>>
       THEN Apply(i, "__next__", next(World, i, NoProject, 0), NoAnswer)
       ELSE \E answer \in FittingAnswers(paginators[i]) :
            \E nfound \in Found(paginators[i],
                                IF answer.missing = "none" THEN answer.edges ELSE 0) :
               Apply(i, "__next__", next(World, i, answer, nfound), answer)

NextObject == \E i \in DOMAIN paginators : NextObjectOn(i)

----------------------------------------------------------------------------
(* One paginator, its methods called one by one *)

\* An ArtifactType and an ArtifactCollection (with a rename staged) exist;
\* no paginator is built yet.
ObjectsBuilt ==
    /\ artifact_type = [kind |-> "ArtifactType", type |-> "model"]
    /\ collection = [kind |-> "ArtifactCollection",
                     name |-> "n2", saved_name |-> "n1",
                     type |-> "model", saved_type |-> "model",
                     is_sequence |-> TRUE, description |-> "None",
                     tags |-> <<>>, saved_tags |-> <<>>]
    /\ args = NoObject
    /\ op = "none"
    /\ calls = <<>>
    /\ outcome = "ok"
    /\ dicts = <<>>
    /\ length = NoLength

InitPaginators ==
    /\ module = <<>>
    /\ CodegenIdle
    /\ ObjectsBuilt
    /\ paginators = <<NoObject>>

NextPaginators ==
    \/ ConstructArtifactTypes
    \/ ConstructArtifactCollections
    \/ Collections
    \/ ArtifactsOfCollection
    \/ ConstructRunArtifacts
    \/ ConstructArtifactFiles
    \/ UpdateVariables
    \/ UpdateResponse
    \/ ConvertObjects

SpecPaginators == InitPaginators /\ [][NextPaginators]_vars

\* The paginator as its users drive it: construction, iteration, length
\* access and the public methods; _update_response runs only inside a page
\* load.
NextIteration ==
    \/ ConstructArtifactTypes
    \/ ConstructArtifactCollections
    \/ Collections
    \/ ArtifactsOfCollection
    \/ ConstructRunArtifacts
    \/ ConstructArtifactFiles
    \/ UpdateVariables
    \/ ConvertObjects
    \/ Length
    \/ NextObject

SpecIteration == InitPaginators /\ [][NextIteration]_vars

----------------------------------------------------------------------------
(* Properties of the paginators *)

\* The last operation cached the server's answer as last_response of
\* paginator i.
CachedAnswer(a, i) == a.p = i /\ a.answer.missing = "none"

\* C12: for every paginator of every kind, `more` is True and `cursor` is
\* None from its construction until a response is cached; a step that
\* caches the server's answer makes `more` the answer's has-next-page flag
\* and `cursor` its end cursor; every other step leaves both as they were.
C12_MoreAndCursorFollowLastResponse ==
    [][\A i \in DOMAIN paginators :
          paginators'[i] # NoObject =>
             LET p == paginators'[i] IN
             IF paginators[i] = NoObject
             THEN more(p) /\ cursor(p) = "None"
             ELSE IF CachedAnswer(args', i)
             THEN /\ more(p) = args'.answer.has_next_page
                  /\ cursor(p) = args'.answer.end_cursor
             ELSE /\ more(p) = more(paginators[i])
                  /\ cursor(p) = cursor(paginators[i])
      ]_vars

\* C12 witness: a second page was fetched after one whose end cursor was
\* c1; it reported no next page and the end cursor c2.
C12_Witness ==
    \E i \in DOMAIN paginators :
        /\ HasPaginator(i)
        /\ op = "__next__"
        /\ CachedAnswer(args, i)
        /\ ~more(paginators[i])
        /\ cursor(paginators[i]) = "c2"
        /\ "cursor" \in DOMAIN dicts[paginators[i].variables]
        /\ dicts[paginators[i].variables].cursor = "c1"

\* The cached response of p reported no next page.
Exhausted(p) == p.last_response # NoResponse /\ ~p.last_response.has_next_page

\* C13: once the cached response of a paginator reports no next page, `more`
\* is False, and every later step (iteration step, length access,
\* update_variables, convert_objects) leaves the paginator exhausted with
\* `more` False and sends no page query.
C13_ExhaustedIsAbsorbing ==
    [][\A i \in DOMAIN paginators :
          (HasPaginator(i) /\ Exhausted(paginators[i])) =>
             /\ ~more(paginators[i])
             /\ Exhausted(paginators'[i])
             /\ ~more(paginators'[i])
             /\ CallsOf(calls', paginators[i].QUERY) = <<>>
      ]_vars

\* C13 witness: an iteration step on an exhausted paginator ended the
\* iteration without a query, and so did a length access.
C13_Witness ==
    \E i \in DOMAIN paginators :
        /\ HasPaginator(i)
        /\ Exhausted(paginators[i])
        /\ args.p = i
        /\ calls = <<>>
        /\ \/ op = "__next__" /\ outcome = "StopIteration"
           \/ op = "_length" /\ length # NoLength

\* The variable a paginator binds its cursor to.
CursorVariable(p) == IF p.kind = "ArtifactFiles" THEN "fileCursor" ELSE "cursor"

\* The page queries among the calls of the last operation on paginator p.
PageQueries(cs, p) == CallsOf(cs, p.QUERY)

\* C14: every page load (by an iteration step or a length access) that
\* sends the page query binds the cursor variable first (cursor for
\* ArtifactTypes, ArtifactCollections, Artifacts and RunArtifacts, fileCursor
\* for ArtifactFiles): the query carries None when no response was cached
\* before the load and otherwise the end cursor of the response cached by
\* the previous fetch, and the variables dict holds that same value after
\* the load.
C14_CursorBoundBeforeFetch ==
    [][\A i \in DOMAIN paginators :
          (HasPaginator(i) /\ args'.p = i /\ op' \in {"__next__", "_length"}) =>
             LET p == paginators[i]
                 queries == PageQueries(calls', p)
             IN /\ Len(queries) <= 1
                /\ \A k \in 1..Len(queries) :
                      /\ CursorVariable(p) \in DOMAIN queries[k].variables
                      /\ queries[k].variables[CursorVariable(p)] =
                            IF p.last_response = NoResponse THEN "None"
                            ELSE p.last_response.end_cursor
                      /\ dicts'[p.variables] = queries[k].variables
      ]_vars

\* C14 witness: an ArtifactFiles paginator whose first fetch ended at c2
\* sent its second page query with fileCursor = c2 and got c1.
C14_Witness ==
    \E i \in DOMAIN paginators :
        /\ HasPaginator(i)
        /\ paginators[i].kind = "ArtifactFiles"
        /\ op = "__next__" /\ args.p = i
        /\ Len(calls) = 1
        /\ calls[1].variables.fileCursor = "c2"
        /\ paginators[i].last_response # NoResponse
        /\ paginators[i].last_response.end_cursor = "c1"

\* C15: _update_response leaves the query variables alone, so in every
\* reachable state and for every answer of the server, fetching twice
\* without update_variables in between sends the same single query with the
\* same variables both times and leaves the paginator (last_response, `more`,
\* `cursor`) and the variables as the first fetch left them.
C15_FetchIdempotent ==
    \A i \in DOMAIN paginators :
        HasPaginator(i) =>
           \A answer \in Answers(paginators[i]) :
              LET once == update_response(World, i, answer)
                  twice == update_response([once EXCEPT !.calls = <<>>,
                                                        !.outcome = "ok"],
                                           i, answer)
              IN /\ once.ds = dicts
                 /\ Len(once.calls) = 1
                 /\ once.calls[1].variables = dicts[paginators[i].variables]
                 /\ twice.calls = once.calls
                 /\ twice.ds = once.ds
                 /\ twice.ps = once.ps
                 /\ twice.outcome = once.outcome
                 /\ more(twice.ps[i]) = more(once.ps[i])
                 /\ cursor(twice.ps[i]) = cursor(once.ps[i])

\* C15 witness: _update_response cached a response ending at c2 while the
\* cursor variable still holds c1: the cursor has not advanced, and the
\* fetch can be repeated.
C15_Witness ==
    \E i \in DOMAIN paginators :
        /\ HasPaginator(i)
        /\ op = "_update_response" /\ args.p = i /\ outcome = "ok"
        /\ cursor(paginators[i]) = "c2"
        /\ "cursor" \in DOMAIN dicts[paginators[i].variables]
        /\ dicts[paginators[i].variables].cursor = "c1"
        /\ calls[1].variables = dicts[paginators[i].variables]

\* A page load ran in the last operation on paginator i: the server was asked.
PageLoaded(a, i) == a.p = i /\ a.answer # NoAnswer

\* C16 (as claimed): a page load of any paginator, from binding the cursor
\* to converting the response, sends exactly one network query, whatever
\* the number of entries of the page.
C16_OneQueryPerPageLoad ==
    \A i \in DOMAIN paginators :
        (HasPaginator(i) /\ op \in {"__next__", "_length"} /\ PageLoaded(args, i))
            => Len(calls) = 1

\* C17: a length access on a sized paginator with no response cached runs
\* exactly one page load (one page query, with the cursor bound); with a
\* response cached it sends nothing and changes nothing; and the value it
\* returns is the total count of the response cached last (the one this
\* access fetched, if it fetched) for ArtifactCollections, Artifacts and
\* RunArtifacts, and the artifact's file count for ArtifactFiles.
C17_LengthLoadsLazily ==
    [][\A i \in DOMAIN paginators :
          (HasPaginator(i) /\ op' = "_length" /\ args'.p = i
              /\ paginators[i].kind \in SizedKinds) =>
             LET p == paginators[i] IN
             /\ IF p.last_response = NoResponse
                THEN /\ PageLoaded(args', i)
                     /\ Len(PageQueries(calls', p)) = 1
                     /\ calls'[1].query = p.QUERY
                     /\ CursorVariable(p) \in DOMAIN calls'[1].variables
                ELSE /\ calls' = <<>>
                     /\ paginators' = paginators
                     /\ dicts' = dicts
                     /\ outcome' = "ok"
             /\ outcome' = "ok" =>
                   length' = IF ~HasTotalCount(p.kind) THEN p.file_count
                             ELSE IF p.last_response = NoResponse
                             THEN args'.answer.total_count
                             ELSE p.last_response.total_count
      ]_vars

\* C17 witness: the length of an Artifacts paginator was accessed before any
\* page was fetched; the access loaded the first page and returned its
\* total count, 2.
C17_Witness ==
    \E i \in DOMAIN paginators :
        /\ HasPaginator(i)
        /\ paginators[i].kind = "Artifacts"
        /\ op = "_length" /\ PageLoaded(args, i) /\ outcome = "ok"
        /\ Len(calls) = 1
        /\ length = 2
        /\ paginators[i].last_response.total_count = 2

\* The answers to a page query of p in which a level is missing.
BrokenAnswers(p) == {a \in Answers(p) : a.missing # "none"}

\* C18: in every reachable state of every paginator, when the response
\* lacks a level (project, type, collection, run, artifact, membership or
\* the connection itself) _update_response raises after sending its query
\* and leaves the paginator as it was: last_response, and so `more` and
\* `cursor`, and the query variables keep their values.
C18_FailedFetchKeepsState ==
    \A i \in DOMAIN paginators :
        HasPaginator(i) =>
           \A answer \in BrokenAnswers(paginators[i]) :
              LET failed == update_response(World, i, answer) IN
              /\ failed.outcome # "ok"
              /\ Len(failed.calls) = 1
              /\ failed.ps = paginators
              /\ failed.ds = dicts
              /\ more(failed.ps[i]) = more(paginators[i])
              /\ cursor(failed.ps[i]) = cursor(paginators[i])

\* C18 witness: _update_response raised on a paginator that holds a cached
\* response reporting no next page, and the response is still cached.
C18_Witness ==
    \E i \in DOMAIN paginators :
        /\ HasPaginator(i)
        /\ op = "_update_response" /\ args.p = i
        /\ args.answer \in BrokenAnswers(paginators[i])
        /\ outcome # "ok"
        /\ Exhausted(paginators[i])
        /\ cursor(paginators[i]) = "c2"

----------------------------------------------------------------------------
(* Two paginators side by side *)

InitShared ==
    /\ module = <<>>
    /\ CodegenIdle
    /\ ObjectsBuilt
    /\ paginators = <<NoObject, NoObject>>

\* Either paginator is built at any time, as ArtifactTypes or Artifacts;
\* paginator 1 runs the methods.
NextShared ==
    \/ ConstructArtifactTypes
    \/ ArtifactsOfCollection
    \/ UpdateVariablesOn(1)
    \/ UpdateResponseOn(1)
    \/ ConvertObjectsOn(1)
    \/ LengthOn(1)

SpecShared == InitShared /\ [][NextShared]_vars

\* What belongs to paginator i: the object and its query variables.
OwnState(ps, ds, i) ==
    IF ps[i] = NoObject THEN <<NoObject>>
    ELSE <<ps[i], ds[ps[i].variables], more(ps[i]), cursor(ps[i])>>

\* C19: an operation on one paginator (construction, update_variables,
\* _update_response, convert_objects, length access) leaves every other
\* paginator as it was: its query variables, last_response, `more`, `cursor`
\* and the rest of the object; this holds too for two paginators built with
\* the same arguments.
C19_NoSharedState ==
    [][\A i, j \in DOMAIN paginators :
          (i # j /\ args'.p = i /\ HasPaginator(j)) =>
             OwnState(paginators', dicts', j) = OwnState(paginators, dicts, j)
      ]_vars

\* C19 witness: two Artifacts paginators built with the same arguments; the
\* first has bound its cursor and cached a page, the second is as built.
C19_Witness ==
    /\ HasPaginator(1) /\ HasPaginator(2)
    /\ paginators[1].kind = "Artifacts"
    /\ paginators[2] = [paginators[1] EXCEPT !.variables = paginators[2].variables,
                                             !.last_response = NoResponse,
                                             !.nobjects = 0]
    /\ paginators[1].last_response # NoResponse
    /\ paginators[1].variables # paginators[2].variables
    /\ "cursor" \in DOMAIN dicts[paginators[1].variables]
    /\ "cursor" \notin DOMAIN dicts[paginators[2].variables]

\* C20 (as claimed): the paginator that ArtifactType.collections(per_page)
\* or ArtifactCollection.artifacts(per_page) returns has the page size
\* per_page, for every per_page.
C20_PerPageSetsPageSize ==
    \A i \in DOMAIN paginators :
        (HasPaginator(i) /\ args.p = i
            /\ op \in {"ArtifactType.collections", "ArtifactCollection.artifacts"})
            => paginators[i].per_page = args.per_page

====
